---- MODULE Spec2Model ----
(***************************************************************************)
(* A model of trajectory_analyzer: the engine selector, the operator       *)
(* output contract, Context.apply's multi-output fan-out and the turn      *)
(* derivation in its two implementations (pandas, derivation.py, and the   *)
(* batch operator, derivation_ops.py).                                     *)
(*                                                                         *)
(* Each subsystem has its own specification over the module's variables;   *)
(* the variables of the other subsystems stay at their initial values.     *)
(*   SpecRunner  AnalysisRunner.choose_engine / run                        *)
(*   SpecNorm    Context.apply of an arbitrary operator (output contract)  *)
(*   SpecApply   Context.apply of BuildTurnsAndErrors over batches         *)
(*   SpecTurns   assign_turn_index, build_turns and the operator on one    *)
(*               batch                                                     *)
(*   SpecSpans   build_model_spans                                         *)
(*   SpecFlow    the derivation end to end on the two-session scenario     *)
(*   SpecTools   build_tool_calls                                          *)
(*   SpecSessions build_sessions on the turns of a log of raw events       *)
(*   SpecSessionRows build_sessions on a given turns table                 *)
(*   SpecApplySessions Context.apply of BuildSessions over batches         *)
(*   SpecResolve resolve_partition_paths                                   *)
(*   SpecCatalog InMemoryCatalog.register / get / list                     *)
(*   SpecRuntime WorkerRuntime.duckdb_conn and Batch                       *)
(*   SpecWrite   Context.write, step by step                               *)
(*                                                                         *)
(* Encoding.  Python's None is NULL in a numeric column and NONE in a      *)
(* string column (TLC compares only values of one type).  A table is a     *)
(* record [cols, rows]: the set of its column names and the sequence of    *)
(* its rows, each row a record over cols.  A dict is a sequence of         *)
(* <<key, value>> pairs in insertion order.                                *)
(***************************************************************************)
EXTENDS Integers, Sequences, FiniteSets, TLC

VARIABLES
    \* ---- AnalysisRunner (runner.py)
    threshold,      \* self.config.distributed_scan_threshold_bytes
    plugin_req,     \* plugin.requires_distributed of the last run
    params_est,     \* params of the last run: estimated_scan_bytes, or Absent
    engine,         \* kind of the engine the last run was routed to
    runs,           \* number of run() calls so far
    \* ---- Context.apply of an arbitrary operator (context.py, operators.py)
    op_outputs,     \* op.outputs, the declared output names
    op_out,         \* batch -> what op.transform returned for it
    norm,           \* batch -> what normalize_op_output did with it
    blocks,         \* batch -> the block map_batches holds for it
    \* ---- Context.apply of BuildTurnsAndErrors (context.py, derivation_ops.py)
    raw,            \* the dataset's rows, in the order they are stored
    batch_of,       \* row number -> the batch the scheduler puts it in
    bte_out,        \* batch -> what BuildTurnsAndErrors.transform returned for it
    mixed,          \* batch -> the tagged block fanout returned for it
    \* ---- derivation on one batch (derivation.py, derivation_ops.py)
    events,         \* the batch of canonical events
    pc,             \* position of the local pipeline
    with_turns,     \* assign_turn_index(events)
    again,          \* assign_turn_index(with_turns)
    turns,          \* build_turns(with_turns)
    op_pc,          \* position of the operator path
    op_res,         \* BuildTurnsAndErrors.transform(events), with the loop's indices
    op_res2,        \* the same for the batch fed back with those indices
    \* ---- build_model_spans (derivation.py)
    span_events,    \* the batch given to build_model_spans
    span_pc,        \* whether build_model_spans has run
    spans,          \* its result
    \* ---- the derivation end to end on one batch (derivation.py)
    batch,          \* the batch of canonical events
    flow,           \* position of the derivation
    indexed,        \* assign_turn_index(batch)
    built,          \* the derived tables built so far
    model_spans,    \* build_model_spans(indexed)
    tool_calls,     \* build_tool_calls(indexed)
    turn_rows,      \* build_turns(indexed)
    \* ---- build_tool_calls (derivation.py)
    tool_events,    \* the batch given to build_tool_calls
    tool_pc,        \* whether build_tool_calls has run
    tools,          \* its result
    \* ---- build_sessions (derivation.py)
    ses_events,     \* the raw events given to build_sessions
    ses_pc,         \* whether build_sessions has run
    sessions,       \* its result
    \* ---- resolve_partition_paths (catalog.py)
    table_spec,     \* the TableSpec resolved against
    filters,        \* the ReadFilters, or NoFilters
    res_pc,         \* whether resolve_partition_paths has run
    resolved,       \* its outcome: the exception raised and the patterns returned
    \* ---- InMemoryCatalog (catalog.py)
    tables,         \* self._tables, as a sequence of <<name, spec>> in insertion order
    registered,     \* the register calls made so far, as <<name, spec>>
    got,            \* the last get call: its name and its outcome
    listed,         \* what the last list() call returned
    \* ---- WorkerRuntime and Batch (runtime.py, operators.py)
    conns,          \* runtime -> its _duckdb_conn, or NULL
    connects,       \* number of duckdb.connect() calls so far
    wrapped,        \* batch -> the runtime it was constructed with
    views,          \* connection -> the batch registered on it as "batch", or NULL
    rt_calls,       \* the calls made so far, each with what it returned
    \* ---- Context.write (context.py)
    fs,             \* the entries under the destination: path, kind and the write that made it
    out_exists,     \* whether the destination directory exists
    wpc,            \* position of the write call in progress
    wmode,          \* mode of the last write call
    wid,            \* number of the last write call
    todo,           \* the listing the overwrite loop still has to go through
    pending,        \* the files write_parquet still has to write
    before,         \* the entries that existed when the last write call began
    ses_turns,      \* the turns table given to build_sessions
    \* ---- Context.apply of BuildSessions (context.py, derivation_ops.py)
    turn_ds,        \* the rows of the turns dataset, in the order they are stored
    turn_batch_of,  \* row number -> the batch the scheduler puts it in
    ses_blocks      \* batch -> the block map_batches holds for it

runnerVars == <<threshold, plugin_req, params_est, engine, runs>>
normVars   == <<op_outputs, op_out, norm, blocks>>
applyVars  == <<raw, batch_of, bte_out, mixed>>
turnVars   == <<events, pc, with_turns, again, turns, op_pc, op_res, op_res2>>
spanVars   == <<span_events, span_pc, spans>>
flowVars   == <<batch, flow, indexed, built, model_spans, tool_calls, turn_rows>>
toolVars   == <<tool_events, tool_pc, tools>>
sesVars    == <<ses_events, ses_pc, sessions, ses_turns>>
resVars    == <<table_spec, filters, res_pc, resolved>>
catVars    == <<tables, registered, got, listed>>
rtVars     == <<conns, connects, wrapped, views, rt_calls>>
wrVars     == <<fs, out_exists, wpc, wmode, wid, todo, pending, before>>
appsVars   == <<turn_ds, turn_batch_of, ses_blocks>>
vars       == <<runnerVars, normVars, applyVars, turnVars, spanVars,
                flowVars, toolVars, sesVars, resVars, catVars, rtVars,
                wrVars, appsVars>>

\* None in a numeric column.
NULL == -1
\* None in a string column.
NONE == "None"
\* A result that has not been computed.
NotRun == "not run"

(***************************************************************************)
(* AnalysisRunner                                                          *)
(***************************************************************************)

\* Byte counts exceed 32 bits: a count is [gib, rem], gib * 1024^3 + rem
\* bytes with 0 <= rem < 1024^3.
GiB == 1024 * 1024 * 1024
Bytes(g, r) == [gib |-> g, rem |-> r]
GE(a, b) == a.gib > b.gib \/ (a.gib = b.gib /\ a.rem >= b.rem)

\* PlannerConfig.distributed_scan_threshold_bytes = 20 * 1024 * 1024 * 1024
DefaultThresholdGiB == 20
DefaultThreshold == Bytes(DefaultThresholdGiB, 0)

\* params is the sequence of the values it holds under "estimated_scan_bytes":
\* empty when the key is absent.
Absent == <<>>
Given(b) == <<b>>

\* int(params.get("estimated_scan_bytes", 0))
estimated_scan(params) == IF params = Absent THEN Bytes(0, 0) ELSE params[1]

AtOrAboveStrict(est, thr) == GE(est, thr) /\ est # thr
\* estimated_scan >= self.config.distributed_scan_threshold_bytes
AtOrAbove(est, thr) == GE(est, thr)

\* AnalysisRunner.choose_engine, by the kind of the engine it returns.
choose_engine(requires_distributed, params, thr) ==
    IF requires_distributed THEN "ray"
    ELSE IF AtOrAbove(estimated_scan(params), thr) THEN "ray"
    ELSE "duckdb"

\* The thresholds a PlannerConfig is built with.
Thresholds ==
    {DefaultThreshold, Bytes(0, 0), Bytes(0, 1), Bytes(1, 0), Bytes(DefaultThresholdGiB, 1)}

\* The estimates a caller supplies.
Estimates ==
    {Absent} \cup
    { Given(b) : b \in {Bytes(0, 0), Bytes(0, 1), Bytes(1, 0),
                        Bytes(DefaultThresholdGiB - 1, GiB - 1),
                        Bytes(DefaultThresholdGiB, 0), Bytes(DefaultThresholdGiB, 1),
                        Bytes(DefaultThresholdGiB + 1, 0)} }

MaxRuns == 2

\* AnalysisRunner.run: choose the engine and hand the work to it.
Run(req, params) ==
    /\ runs < MaxRuns
    /\ plugin_req' = req
    /\ params_est' = params
    /\ engine' = choose_engine(req, params, threshold)
    /\ runs' = runs + 1
    /\ UNCHANGED threshold

(***************************************************************************)
(* Tables, dicts and the operator output contract (operators.py)           *)
(***************************************************************************)

Range(s) == { s[i] : i \in DOMAIN s }

RECURSIVE Concat(_)
\* The concatenation of a sequence of sequences.
Concat(ss) == IF ss = <<>> THEN <<>> ELSE Head(ss) \o Concat(Tail(ss))

\* The columns that hold strings; every other column holds integers.
StringCols == {"__output__", "status", "event_type"}
NoneOf(c) == IF c \in StringCols THEN NONE ELSE NULL

Table(cols, rows) == [cols |-> cols, rows |-> rows]
\* pa.table({}): no columns, no rows.
EmptyTable == Table({}, <<>>)

\* pa.Table.from_pylist(rows): the columns are the keys of the FIRST row; a
\* later row's other keys are dropped and its missing keys are None.
from_pylist(rows) ==
    IF rows = <<>> THEN EmptyTable
    ELSE LET names == DOMAIN rows[1]
         IN  Table(names,
                   [i \in DOMAIN rows |->
                       [c \in names |-> IF c \in DOMAIN rows[i] THEN rows[i][c] ELSE NoneOf(c)]])

\* Table.to_pylist()
to_pylist(tbl) == tbl.rows

\* What a transform can return: a pa.Table, an object with to_arrow() (a
\* polars frame), any other object, or a dict of such values.
TableVal(tbl) == [kind |-> "table", tbl |-> tbl, items |-> <<>>]
FrameVal(tbl) == [kind |-> "frame", tbl |-> tbl, items |-> <<>>]
OtherVal      == [kind |-> "other", tbl |-> EmptyTable, items |-> <<>>]
DictVal(kvs)  == [kind |-> "dict", tbl |-> EmptyTable, items |-> kvs]

Keys(kvs) == { kvs[i][1] : i \in DOMAIN kvs }

\* The outcome of a call: the exception it raised ("none" if it returned)
\* and the dict it returned.
Raise(e) == [err |-> e, map |-> <<>>]
Return(m) == [err |-> "none", map |-> m]

\* _to_arrow raises TypeError on a value that is neither a table nor has
\* to_arrow().
Coercible(v) == v.kind \in {"table", "frame"}
\* _to_arrow(value), for a coercible value.
to_arrow(v) == v.tbl

KeysMatchLoose(keys, outputs) == Range(outputs) \subseteq keys
\* keys != set(outputs), negated
KeysMatch(keys, outputs) == keys = Range(outputs)

CoerceAllLenient(kvs) ==
    Return([i \in DOMAIN kvs |->
               <<kvs[i][1], IF Coercible(kvs[i][2]) THEN to_arrow(kvs[i][2]) ELSE EmptyTable>>])
\* {k: _to_arrow(v) for k, v in out.items()}: the first value that cannot be
\* coerced raises, and no dict is returned.
CoerceAll(kvs) ==
    IF \E i \in DOMAIN kvs : ~Coercible(kvs[i][2]) THEN Raise("TypeError")
    ELSE Return([i \in DOMAIN kvs |-> <<kvs[i][1], to_arrow(kvs[i][2])>>])

\* normalize_op_output(out, outputs)
normalize_op_output(out, outputs) ==
    IF out.kind = "dict"
    THEN IF ~KeysMatch(Keys(out.items), outputs) THEN Raise("ValueError")
         ELSE CoerceAll(out.items)
    ELSE IF Len(outputs) # 1 THEN Raise("ValueError")
    ELSE CoerceAll(<< <<outputs[1], out>> >>)

(***************************************************************************)
(* Context.apply (context.py)                                              *)
(***************************************************************************)

\* dict lookup m[k], for a key the dict holds.
Lookup(m, k) == m[CHOOSE i \in DOMAIN m : m[i][1] = k][2]

\* row["__output__"] = name
Tag(row, name) ==
    [c \in DOMAIN row \cup {"__output__"} |-> IF c = "__output__" THEN name ELSE row[c]]

\* fanout's loops: every row of every output, tagged, in the dict's order.
TaggedRows(out_map) ==
    Concat([i \in DOMAIN out_map |->
               [j \in DOMAIN to_pylist(out_map[i][2]) |->
                   Tag(to_pylist(out_map[i][2])[j], out_map[i][1])]])

FanoutTableUnguarded(rows) == from_pylist(rows)
\* fanout's return: the empty tagged table when there is no row at all.
FanoutTable(rows) ==
    IF rows = <<>> THEN Table({"__output__"}, <<>>) ELSE from_pylist(rows)

\* fanout(tbl), given what mapper(tbl) returned.
fanout(out_map) == FanoutTable(TaggedRows(out_map))

\* What map_batches holds for a batch: nothing yet, the block the mapper
\* returned, or nothing because the mapper raised.
Pending == [state |-> "pending", tbl |-> EmptyTable]
Done(tbl) == [state |-> "done", tbl |-> tbl]
Failed == [state |-> "failed", tbl |-> EmptyTable]

\* r.get("__output__") == n
HasTag(row, n) == "__output__" \in DOMAIN row /\ row["__output__"] = n

\* part.drop_columns(["__output__"]), on one row
DropTag(row) == [c \in DOMAIN row \ {"__output__"} |-> row[c]]

\* mixed.filter(lambda r: r.get("__output__") == n).drop_columns(["__output__"]),
\* on one block.
Part(tbl, n) ==
    LET kept == SelectSeq(tbl.rows, LAMBDA r : HasTag(r, n))
    IN  Table(tbl.cols \ {"__output__"}, [i \in DOMAIN kept |-> DropTag(kept[i])])

\* The rows of output n that the blocks done so far hold, batch by batch.
PartRows(blks, n) ==
    Concat([b \in DOMAIN blks |->
               IF blks[b].state = "done" THEN Part(blks[b].tbl, n).rows ELSE <<>>])

(***************************************************************************)
(* Context.apply of an arbitrary operator                                  *)
(***************************************************************************)

MaxBatches == 2
NormBatches == 1 .. MaxBatches

\* op.outputs of the operators applied: the default single output, and the
\* two outputs of a multi-output operator.
Declared == { <<"out">>, <<"turns", "errors">> }

\* The tables an operator returns: none or one row.
OneRow == Table({"x"}, << [x |-> 1] >>)
Values == {TableVal(EmptyTable), TableVal(OneRow), FrameVal(OneRow), OtherVal}

\* The dicts an operator returns: up to two distinct keys.
KeyPairs == { <<"out", "turns">>, <<"out", "errors">>, <<"turns", "errors">> }
DictItems ==
    {<<>>}
    \cup { << <<k, v>> >> : k \in {"out", "turns", "errors"}, v \in Values }
    \cup { << <<ks[1], v1>>, <<ks[2], v2>> >> : ks \in KeyPairs, v1 \in Values, v2 \in Values }
OutShapes == Values \cup { DictVal(kvs) : kvs \in DictItems }

Unset == [kind |-> "unset", tbl |-> EmptyTable, items |-> <<>>]
NotCalled == Raise(NotRun)

\* mapper(batch_tbl), given what op.transform returned.
mapper(out, outputs) == normalize_op_output(out, outputs)

\* single_mapper on batch b: the table under the one declared name.
SingleMap(b, out) ==
    /\ Len(op_outputs) = 1
    /\ blocks[b].state = "pending"
    /\ LET r == mapper(out, op_outputs)
       IN  /\ op_out' = [op_out EXCEPT ![b] = out]
           /\ norm' = [norm EXCEPT ![b] = r]
           /\ blocks' = [blocks EXCEPT ![b] =
                  IF r.err = "none" THEN Done(Lookup(r.map, op_outputs[1])) ELSE Failed]
    /\ UNCHANGED op_outputs

\* fanout on batch b: one tagged table for all the outputs.
FanoutMap(b, out) ==
    /\ Len(op_outputs) # 1
    /\ blocks[b].state = "pending"
    /\ LET r == mapper(out, op_outputs)
       IN  /\ op_out' = [op_out EXCEPT ![b] = out]
           /\ norm' = [norm EXCEPT ![b] = r]
           /\ blocks' = [blocks EXCEPT ![b] =
                  IF r.err = "none" THEN Done(fanout(r.map)) ELSE Failed]
    /\ UNCHANGED op_outputs

(***************************************************************************)
(* Canonical events and BuildTurnsAndErrors (derivation_ops.py)            *)
(***************************************************************************)

\* A canonical event: the columns the derivation reads, as _empty_row
\* leaves them.  event_id is the event's number in its log.
BaseEvent ==
    [dt |-> 1, app_id |-> 1, session_id |-> NULL, event_id |-> 0, ts |-> 1,
     event_type |-> "message", turn_index |-> NULL, request_id |-> NULL,
     error_type |-> NULL, error_code |-> NULL,
     input_tokens |-> NULL, output_tokens |-> NULL, latency_ms |-> NULL,
     exit_code |-> NULL]

\* An event of a session, with the error columns set on an error event.
Ev(sid, ts, ty, tidx) ==
    [BaseEvent EXCEPT !.session_id = sid, !.ts = ts, !.event_type = ty, !.turn_index = tidx,
                      !.error_type = IF ty = "error" THEN 7 ELSE NULL,
                      !.error_code = IF ty = "error" THEN 500 ELSE NULL]

\* dict.get(k, default) and d[k] = v on a dict kept as a function.
Get(d, k, default) == IF k \in DOMAIN d THEN d[k] ELSE default
Put(d, k, v) == [x \in DOMAIN d \cup {k} |-> IF x = k THEN v ELSE d[x]]

CounterKeyShared(sid) == 0
\* turn_counters is keyed by the session id.
CounterKey(sid) == sid

ExplicitIndexThenStart(ev, explicit) == IF ev = "turn_start" THEN explicit + 1 ELSE explicit
\* tidx = explicit; turn_counters[sid] = int(tidx)
ExplicitIndex(ev, explicit) == explicit

\* The state of transform's loop: turn_counters, turns_rows (a dict, kept
\* as the sequence of its values in insertion order), error_rows, and the
\* index each row was given so far (NULL for a row the loop skipped).
LoopInit == [counters |-> <<>>, turns_rows |-> <<>>, error_rows |-> <<>>, tidxs |-> <<>>]

TurnKey(r) == <<r.dt, r.app_id, r.session_id, r.turn_index>>

\* turns_rows.setdefault(key, {...}) followed by the two counts.
Count(rows, row, tidx) ==
    LET key == <<row.dt, row.app_id, row.session_id, tidx>>
        new == [dt |-> row.dt, app_id |-> row.app_id, session_id |-> row.session_id,
                turn_index |-> tidx, react_iters |-> 0, error_count |-> 0]
        had == \E i \in DOMAIN rows : TurnKey(rows[i]) = key
        all == IF had THEN rows ELSE Append(rows, new)
    IN  [i \in DOMAIN all |->
            IF TurnKey(all[i]) = key
            THEN [all[i] EXCEPT
                    !.react_iters = @ + (IF row.event_type = "llm_request" THEN 1 ELSE 0),
                    !.error_count = @ + (IF row.event_type = "error" THEN 1 ELSE 0)]
            ELSE all[i]]

\* One iteration of transform's loop.
LoopStep(st, row) ==
    LET sid == row.session_id
        ev == row.event_type
        explicit == row.turn_index
        k == CounterKey(sid)
        cur == Get(st.counters, k, 0)
        counters ==
            IF explicit # NULL THEN Put(st.counters, k, ExplicitIndex(ev, explicit))
            ELSE IF ev = "turn_start" THEN Put(st.counters, k, cur + 1)
            ELSE st.counters
        tidx == IF explicit # NULL THEN ExplicitIndex(ev, explicit) ELSE Get(counters, k, NULL)
    IN  IF sid = NULL THEN [st EXCEPT !.tidxs = Append(@, NULL)]
        ELSE IF tidx = NULL THEN [st EXCEPT !.counters = counters, !.tidxs = Append(@, NULL)]
        ELSE [counters |-> counters,
              turns_rows |-> Count(st.turns_rows, row, tidx),
              error_rows |->
                  IF ev = "error"
                  THEN Append(st.error_rows,
                              [dt |-> row.dt, app_id |-> row.app_id, session_id |-> sid,
                               turn_index |-> tidx, error_type |-> row.error_type,
                               error_code |-> row.error_code])
                  ELSE st.error_rows,
              tidxs |-> Append(st.tidxs, tidx)]

RECURSIVE Loop(_, _)
\* transform's loop over the rows of the batch, in the order delivered.
Loop(st, rows) == IF rows = <<>> THEN st ELSE Loop(LoopStep(st, Head(rows)), Tail(rows))

StatusOfSeveral(error_count) == IF error_count > 1 THEN "fail" ELSE "success"
\* pc.if_else(pc.greater(error_count, 0), "fail", "success")
StatusOf(error_count) == IF error_count > 0 THEN "fail" ELSE "success"

\* turns_tbl.append_column("status", ...)
WithStatus(tbl) ==
    IF Len(tbl.rows) > 0
    THEN Table(tbl.cols \cup {"status"},
               [i \in DOMAIN tbl.rows |->
                   [c \in DOMAIN tbl.rows[i] \cup {"status"} |->
                       IF c = "status" THEN StatusOf(tbl.rows[i].error_count)
                       ELSE tbl.rows[i][c]]])
    ELSE tbl

\* BuildTurnsAndErrors.outputs
BTEOutputs == <<"turns", "errors">>

\* BuildTurnsAndErrors.transform(ctx, batch), on the rows of the batch.
transform(rows) ==
    IF Len(rows) = 0
    THEN DictVal(<< <<"turns", TableVal(EmptyTable)>>, <<"errors", TableVal(EmptyTable)>> >>)
    ELSE LET st == Loop(LoopInit, rows)
         IN  DictVal(<< <<"turns", TableVal(WithStatus(from_pylist(st.turns_rows)))>>,
                        <<"errors", TableVal(from_pylist(st.error_rows))>> >>)

\* The index the loop gives each row of the batch (NULL: none).
LoopIndices(rows) == Loop(LoopInit, rows).tidxs

\* The table a returned dict holds under a name.
OutTable(out, name) == Lookup(out.items, name).tbl

(***************************************************************************)
(* Context.apply of BuildTurnsAndErrors over the batches of a dataset      *)
(***************************************************************************)

MaxRows == 2
ApplyBatches == 1 .. MaxBatches

SessionIds == {1, 2}

\* The events of the dataset the operator is applied to: two sessions, with
\* and without an explicit turn index.
ApplyEvents ==
    { Ev(sid, 1, ty, tidx) :
        sid \in SessionIds, ty \in {"turn_start", "llm_request", "error"}, tidx \in {NULL, 2} }

\* The logs of up to n events drawn from a set: event_id numbers the events
\* in the order they were logged.
Numbered(s) == [i \in DOMAIN s |-> [s[i] EXCEPT !.event_id = i]]
Logs(base, n) == UNION { { Numbered(s) : s \in [1 .. k -> base] } : k \in 0 .. n }

RECURSIVE Pick(_, _, _)
\* The rows of s whose positions are in I, from position i on, in order.
Pick(s, I, i) ==
    IF i > Len(s) THEN <<>>
    ELSE (IF i \in I THEN <<s[i]>> ELSE <<>>) \o Pick(s, I, i + 1)

\* The rows the scheduler puts in batch b, in their stored order.
BatchRows(rows, of, b) == Pick(rows, { i \in DOMAIN rows : of[i] = b }, 1)

\* fanout on batch b of the dataset: transform, normalize, tag.
ApplyFanout(b) ==
    /\ mixed[b].state = "pending"
    /\ LET out == transform(BatchRows(raw, batch_of, b))
           r == mapper(out, BTEOutputs)
       IN  /\ bte_out' = [bte_out EXCEPT ![b] = out]
           /\ mixed' = [mixed EXCEPT ![b] =
                  IF r.err = "none" THEN Done(fanout(r.map)) ELSE Failed]
    /\ UNCHANGED <<raw, batch_of>>

(***************************************************************************)
(* Context.apply of BuildSessions over the batches of a turns dataset      *)
(***************************************************************************)

\* BuildSessions.outputs
BSOutputs == <<"sessions">>

\* A row of the turns dataset, as BuildTurnsAndErrors returns it.
OpTurnRow(k, tidx, errs) ==
    [dt |-> k[1], app_id |-> k[2], session_id |-> k[3], turn_index |-> tidx,
     react_iters |-> 1, error_count |-> errs, status |-> StatusOf(errs)]

\* The turns of two sessions: first and second turns, with an error or not.
OpTurnRows ==
    { OpTurnRow(k, tidx, errs) :
        k \in { <<1, 1, 1>>, <<1, 1, 2>> }, tidx \in {1, 2}, errs \in {0, 1} }

\* The turns datasets of up to n rows: no turn occurs twice.
TurnDatasets(n) ==
    { t \in UNION { [1 .. k -> OpTurnRows] : k \in 0 .. n } :
        \A i, j \in DOMAIN t : TurnKey(t[i]) = TurnKey(t[j]) => i = j }

\* rows.setdefault(key, {...}) followed by the two counts.
CountTurn(rows, row) ==
    LET key == <<row.dt, row.app_id, row.session_id>>
        new == [dt |-> row.dt, app_id |-> row.app_id, session_id |-> row.session_id,
                turns_count |-> 0, error_turns |-> 0]
        had == \E i \in DOMAIN rows : <<rows[i].dt, rows[i].app_id, rows[i].session_id>> = key
        all == IF had THEN rows ELSE Append(rows, new)
    IN  [i \in DOMAIN all |->
            IF <<all[i].dt, all[i].app_id, all[i].session_id>> = key
            THEN [all[i] EXCEPT
                    !.turns_count = @ + 1,
                    !.error_turns = @ + (IF row.status = "fail" THEN 1 ELSE 0)]
            ELSE all[i]]

RECURSIVE SessionLoop(_, _)
\* BuildSessions.transform's loop over the rows of the batch.
SessionLoop(rows, batch_rows) ==
    IF batch_rows = <<>> THEN rows
    ELSE SessionLoop(CountTurn(rows, Head(batch_rows)), Tail(batch_rows))

\* BuildSessions.transform(ctx, batch), on the rows of the batch.
sessions_transform(batch_rows) == TableVal(from_pylist(SessionLoop(<<>>, batch_rows)))

\* single_mapper on batch b of the turns dataset: transform, normalize,
\* and the table under the one declared name.
ApplySessions(b) ==
    /\ ses_blocks[b].state = "pending"
    /\ LET out == sessions_transform(BatchRows(turn_ds, turn_batch_of, b))
           r == mapper(out, BSOutputs)
       IN  ses_blocks' = [ses_blocks EXCEPT ![b] =
               IF r.err = "none" THEN Done(Lookup(r.map, BSOutputs[1])) ELSE Failed]
    /\ UNCHANGED <<turn_ds, turn_batch_of>>

(***************************************************************************)
(* The pandas derivation (derivation.py)                                   *)
(***************************************************************************)

\* Order of two rows under sort_values(["session_id", "ts", "event_id"]);
\* a null session_id sorts last.
SortKeyLess(a, b) ==
    LET sa == a.session_id
        sb == b.session_id
    IN  \/ sa # NULL /\ sb = NULL
        \/ sa # NULL /\ sb # NULL /\ sa < sb
        \/ sa = sb /\ a.ts < b.ts
        \/ sa = sb /\ a.ts = b.ts /\ a.event_id < b.event_id

RECURSIVE InsertStable(_, _)
\* x put into a sorted sequence, behind every row that is not greater.
InsertStable(sorted, x) ==
    IF sorted = <<>> THEN <<x>>
    ELSE IF SortKeyLess(x, Head(sorted)) THEN <<x>> \o sorted
    ELSE <<Head(sorted)>> \o InsertStable(Tail(sorted), x)

RECURSIVE SortFrom(_, _)
SortFrom(done, rest) ==
    IF rest = <<>> THEN done ELSE SortFrom(InsertStable(done, Head(rest)), Tail(rest))

\* events.sort_values(["session_id", "ts", "event_id"], kind="stable")
sort_values(rows) == SortFrom(<<>>, rows)

\* starts.groupby(ordered["session_id"]).cumsum() at row i: the turn_start
\* rows of the row's session up to row i; null for a null session.
CumStarts(ordered, i) ==
    IF ordered[i].session_id = NULL THEN NULL
    ELSE Cardinality({ j \in 1 .. i : /\ ordered[j].session_id = ordered[i].session_id
                                      /\ ordered[j].event_type = "turn_start" })

\* ordered.loc[ordered["turn_index"] == 0, "turn_index"] = pd.NA
ZeroToNA(n) == IF n = 0 THEN NULL ELSE n

\* assign_turn_index(events)
assign_turn_index(evs) ==
    LET ordered == sort_values(evs)
    IN  [i \in DOMAIN ordered |->
            [ordered[i] EXCEPT !.turn_index = ZeroToNA(CumStarts(ordered, i))]]

\* Lexicographic order of two group keys (dt, app_id, session_id, turn_index).
KeyLess(a, b) ==
    \E i \in 1 .. 4 : a[i] < b[i] /\ \A j \in 1 .. i - 1 : a[j] = b[j]

RECURSIVE SortedKeys(_)
\* The keys of a groupby, in the order groupby(sort=True) yields them.
SortedKeys(keys) ==
    IF keys = {} THEN <<>>
    ELSE LET m == CHOOSE k \in keys : \A o \in keys \ {k} : KeyLess(k, o)
         IN  <<m>> \o SortedKeys(keys \ {m})

\* (s == ty).sum() over the rows of a group
CountType(rows, key, ty) ==
    Cardinality({ i \in DOMAIN rows : TurnKey(rows[i]) = key /\ rows[i].event_type = ty })

Min(S) == CHOOSE x \in S : \A y \in S : x <= y
Max(S) == CHOOSE x \in S : \A y \in S : x >= y

RECURSIVE sum_skipna(_, _, _)
\* Series.sum() of a column over the rows in I: nulls are skipped, and the
\* sum of nothing is 0.
sum_skipna(rows, I, col) ==
    IF I = {} THEN 0
    ELSE LET i == CHOOSE x \in I : TRUE
         IN  (IF rows[i][col] = NULL THEN 0 ELSE rows[i][col]) + sum_skipna(rows, I \ {i}, col)

TurnStatusAtLeastZero(n) == IF n >= 0 THEN "fail" ELSE "success"
\* turns["error_count"].apply(lambda n: "fail" if n > 0 else "success")
TurnStatus(n) == IF n > 0 THEN "fail" ELSE "success"

\* build_turns(raw_events): one row per group of the rows with a turn index.
build_turns(evs) ==
    LET scoped == SelectSeq(evs, LAMBDA r : r.turn_index # NULL)
        keys == SortedKeys({ TurnKey(scoped[i]) : i \in DOMAIN scoped })
        of(k) == { j \in DOMAIN scoped : TurnKey(scoped[j]) = k }
        tss(k) == { scoped[i].ts : i \in of(k) }
    IN  [g \in DOMAIN keys |->
            LET k == keys[g]
                errs == CountType(scoped, k, "error")
                reqs == CountType(scoped, k, "llm_request")
            IN  [dt |-> k[1], app_id |-> k[2], session_id |-> k[3], turn_index |-> k[4],
                 start_ts |-> Min(tss(k)), end_ts |-> Max(tss(k)),
                 status |-> TurnStatus(errs),
                 react_iters |-> reqs,
                 model_spans_count |-> reqs,
                 tool_calls_count |-> CountType(scoped, k, "tool_call"),
                 condense_count |-> CountType(scoped, k, "condense"),
                 todo_update_count |-> CountType(scoped, k, "todo_update"),
                 error_count |-> errs,
                 input_tokens |-> sum_skipna(scoped, of(k), "input_tokens"),
                 output_tokens |-> sum_skipna(scoped, of(k), "output_tokens")]]

(***************************************************************************)
(* The derivation on one batch: the local path and the operator            *)
(***************************************************************************)

MaxEvents == 2

\* The events of the batch: two sessions, timestamps that can run against
\* the order of delivery, explicit turn indices 0 and 2 or none.
TurnEvents ==
    { Ev(sid, ts, ty, tidx) :
        sid \in SessionIds, ts \in {1, 2},
        ty \in {"turn_start", "llm_request", "error"}, tidx \in {NULL, 0, 2} }

NoRes == [out |-> DictVal(<<>>), idx |-> <<>>]

\* with_turns = assign_turn_index(events)
Assign ==
    /\ pc = "start"
    /\ with_turns' = assign_turn_index(events)
    /\ pc' = "assigned"
    /\ UNCHANGED <<events, again, turns, op_pc, op_res, op_res2>>

\* turns = build_turns(with_turns)
BuildTurns ==
    /\ pc = "assigned"
    /\ turns' = build_turns(with_turns)
    /\ pc' = "built"
    /\ UNCHANGED <<events, with_turns, again, op_pc, op_res, op_res2>>

\* assign_turn_index on its own output.
AssignAgain ==
    /\ pc = "built"
    /\ again' = assign_turn_index(with_turns)
    /\ pc' = "again"
    /\ UNCHANGED <<events, with_turns, turns, op_pc, op_res, op_res2>>

\* The batch with each row's turn_index set to the index it was given.
FedBack(rows, idx) == [i \in DOMAIN rows |-> [rows[i] EXCEPT !.turn_index = idx[i]]]

\* BuildTurnsAndErrors.transform on the batch.
Transform ==
    /\ op_pc = "start"
    /\ op_res' = [out |-> transform(events), idx |-> LoopIndices(events)]
    /\ op_pc' = "transformed"
    /\ UNCHANGED <<events, pc, with_turns, again, turns, op_res2>>

\* The transform on the batch fed back with the indices it was given.
TransformAgain ==
    /\ op_pc = "transformed"
    /\ LET fed == FedBack(events, op_res.idx)
       IN  op_res2' = [out |-> transform(fed), idx |-> LoopIndices(fed)]
    /\ op_pc' = "again"
    /\ UNCHANGED <<events, pc, with_turns, again, turns, op_res>>

(***************************************************************************)
(* build_model_spans (derivation.py)                                       *)
(***************************************************************************)

MaxSpanEvents == 3

\* The latency and the output tokens a response carries: a missing, a
\* negative, a zero and a positive latency, and missing tokens.
Measures == { <<NULL, 50>>, <<-5, 50>>, <<0, 50>>, <<2000, 50>>, <<2000, NULL>> }

\* Requests and responses of one session under two request ids or none;
\* the responses to request 1 carry every measure.
SpanEvents ==
    { [Ev(1, 1, "llm_request", NULL) EXCEPT !.request_id = rid, !.input_tokens = 100] :
        rid \in {NULL, 1, 2} }
    \cup
    { [Ev(1, 1, "llm_response", NULL) EXCEPT !.request_id = rid,
                                            !.latency_ms = 2000, !.output_tokens = 50] :
        rid \in {NULL, 1, 2} }
    \cup
    { [Ev(1, 1, "llm_response", NULL) EXCEPT !.request_id = 1,
                                            !.latency_ms = m[1], !.output_tokens = m[2]] :
        m \in Measures }

\* A float quotient, kept exact as numerator and denominator; 0 / 0 is NaN.
Quot(n, d) == [num |-> n, den |-> d]
NaN == Quot(0, 0)

ClipNothing(l) == l
\* spans["latency_ms"].clip(lower=1): a missing latency stays missing.
Clip(l) == IF l = NULL THEN NULL ELSE IF l < 1 THEN 1 ELSE l

\* (spans["output_tokens"] * 1000.0) / spans["latency_ms"].clip(lower=1):
\* NaN where the tokens or the latency are missing.
otps(output_tokens, latency_ms) ==
    IF output_tokens = NULL \/ latency_ms = NULL THEN NaN
    ELSE Quot(output_tokens * 1000, Clip(latency_ms))

\* req.merge(res, on="request_id", how="inner"): every pair of a left and a
\* right row with equal keys (null keys match each other), in the order of
\* the left rows and, for one left row, of the right rows.
merge_inner(left, right) ==
    Concat([i \in DOMAIN left |->
               LET m == SelectSeq(right, LAMBDA r : r.request_id = left[i].request_id)
               IN  [j \in DOMAIN m |-> <<left[i], m[j]>>]])

\* build_model_spans(raw_events)
build_model_spans(evs) ==
    LET req == SelectSeq(evs, LAMBDA r : r.event_type = "llm_request")
        res == SelectSeq(evs, LAMBDA r : r.event_type = "llm_response")
        joined == merge_inner(req, res)
    IN  [i \in DOMAIN joined |->
            [dt |-> joined[i][1].dt, app_id |-> joined[i][1].app_id,
             session_id |-> joined[i][1].session_id,
             turn_index |-> joined[i][1].turn_index,
             span_id |-> joined[i][1].request_id,
             start_ts |-> joined[i][1].ts, end_ts |-> joined[i][2].ts,
             latency_ms |-> joined[i][2].latency_ms,
             input_tokens |-> joined[i][1].input_tokens,
             output_tokens |-> joined[i][2].output_tokens,
             otps |-> otps(joined[i][2].output_tokens, joined[i][2].latency_ms)]]

\* spans = build_model_spans(span_events)
BuildSpans ==
    /\ span_pc = "start"
    /\ spans' = build_model_spans(span_events)
    /\ span_pc' = "done"
    /\ UNCHANGED span_events

(***************************************************************************)
(* build_tool_calls (derivation.py)                                        *)
(***************************************************************************)

MaxToolEvents == 3

\* Calls and results of one session under two request ids or none, the
\* results with exit code 0, 1 or none.
ToolEvents ==
    { [Ev(1, 1, "tool_call", NULL) EXCEPT !.request_id = rid] : rid \in {NULL, 1, 2} }
    \cup
    { [Ev(1, 1, "tool_result", NULL) EXCEPT !.request_id = rid, !.exit_code = c] :
        rid \in {NULL, 1, 2}, c \in {NULL, 0, 1} }

\* joined["exit_code"].fillna(0)
fillna(c) == IF c = NULL THEN 0 ELSE c

\* lambda c: "ok" if c == 0 else "error"
ToolStatus(c) == IF c = 0 THEN "ok" ELSE "error"

\* build_tool_calls(raw_events)
build_tool_calls(evs) ==
    LET calls == SelectSeq(evs, LAMBDA r : r.event_type = "tool_call")
        results == SelectSeq(evs, LAMBDA r : r.event_type = "tool_result")
        joined == merge_inner(calls, results)
    IN  [i \in DOMAIN joined |->
            [dt |-> joined[i][1].dt, app_id |-> joined[i][1].app_id,
             session_id |-> joined[i][1].session_id,
             turn_index |-> joined[i][1].turn_index,
             tool_call_id |-> joined[i][1].request_id,
             start_ts |-> joined[i][1].ts, end_ts |-> joined[i][2].ts,
             status |-> ToolStatus(fillna(joined[i][2].exit_code)),
             exit_code |-> joined[i][2].exit_code,
             error_type |-> joined[i][2].error_type]]

\* tools = build_tool_calls(tool_events)
BuildToolCalls ==
    /\ tool_pc = "start"
    /\ tools' = build_tool_calls(tool_events)
    /\ tool_pc' = "done"
    /\ UNCHANGED tool_events

(***************************************************************************)
(* The derivation end to end: assign_turn_index, then the three tables     *)
(***************************************************************************)

\* Session A of the scenario: a turn_start, a request and its response
\* (100 input and 50 output tokens, 2000 ms), a tool call and its result
\* with exit code 1.
ScenarioA(sid) ==
    << Ev(sid, 1, "turn_start", NULL),
       [Ev(sid, 1, "llm_request", NULL) EXCEPT !.request_id = 1, !.input_tokens = 100],
       [Ev(sid, 1, "llm_response", NULL) EXCEPT !.request_id = 1, !.output_tokens = 50,
                                                !.latency_ms = 2000],
       [Ev(sid, 1, "tool_call", NULL) EXCEPT !.request_id = 2],
       [Ev(sid, 1, "tool_result", NULL) EXCEPT !.request_id = 2, !.exit_code = 1] >>

\* Session B of the scenario: a turn_start and a message.
ScenarioB(sid) == << Ev(sid, 1, "turn_start", NULL), Ev(sid, 1, "message", NULL) >>

\* The number of elements of S up to k.
RankIn(S, k) == Cardinality({ x \in S : x <= k })

\* The log in which the events of b take the positions P and the events of
\* a the others, each session in its own order; the timestamp and the
\* event_id of an event are its position.
Interleave(a, b, P) ==
    LET all == 1 .. Len(a) + Len(b)
    IN  [k \in all |->
            LET e == IF k \in P THEN b[RankIn(P, k)] ELSE a[RankIn(all \ P, k)]
            IN  [e EXCEPT !.ts = k, !.event_id = k]]

\* The batches of the scenario: every interleaving of the two sessions,
\* under either numbering of the sessions.
Scenarios ==
    { Interleave(ScenarioA(ids[1]), ScenarioB(ids[2]), P) :
        ids \in { <<1, 2>>, <<2, 1>> },
        P \in { Q \in SUBSET (1 .. 7) : Cardinality(Q) = 2 } }

\* with_turns = assign_turn_index(events)
AssignTurns ==
    /\ flow = "start"
    /\ indexed' = assign_turn_index(batch)
    /\ flow' = "indexed"
    /\ UNCHANGED <<batch, built, model_spans, tool_calls, turn_rows>>

\* spans = build_model_spans(with_turns)
FlowModelSpans ==
    /\ flow = "indexed"
    /\ "spans" \notin built
    /\ model_spans' = build_model_spans(indexed)
    /\ built' = built \cup {"spans"}
    /\ UNCHANGED <<batch, flow, indexed, tool_calls, turn_rows>>

\* tools = build_tool_calls(with_turns)
FlowToolCalls ==
    /\ flow = "indexed"
    /\ "tools" \notin built
    /\ tool_calls' = build_tool_calls(indexed)
    /\ built' = built \cup {"tools"}
    /\ UNCHANGED <<batch, flow, indexed, model_spans, turn_rows>>

\* turns = build_turns(with_turns)
FlowTurns ==
    /\ flow = "indexed"
    /\ "turns" \notin built
    /\ turn_rows' = build_turns(indexed)
    /\ built' = built \cup {"turns"}
    /\ UNCHANGED <<batch, flow, indexed, model_spans, tool_calls>>

(***************************************************************************)
(* build_sessions (derivation.py)                                          *)
(***************************************************************************)

MaxSessionEvents == 3

\* Raw events of two sessions, the first of them on two dates: errors with
\* a turn index of 1 or 2 or none, and messages of turn 1.
SessionEvents ==
    { [Ev(k[1], 1, "error", tidx) EXCEPT !.dt = k[2]] :
        k \in { <<1, 1>>, <<1, 2>>, <<2, 1>> }, tidx \in {NULL, 1, 2} }
    \cup
    { [Ev(k[1], 1, "message", 1) EXCEPT !.dt = k[2]] :
        k \in { <<1, 1>>, <<1, 2>>, <<2, 1>> } }

\* Every error event of a log carries an error type of its own.
Classified(s) ==
    [i \in DOMAIN s |->
        IF s[i].event_type = "error" THEN [s[i] EXCEPT !.error_type = 10 + i] ELSE s[i]]

SessionKeyBySession(r) == <<1, 1, r.session_id>>
\* The group key of turns.groupby(["dt", "app_id", "session_id"]).
SessionKey(r) == <<r.dt, r.app_id, r.session_id>>

\* Lexicographic order of two group keys (dt, app_id, session_id).
SessionKeyLess(a, b) ==
    \E i \in 1 .. 3 : a[i] < b[i] /\ \A j \in 1 .. i - 1 : a[j] = b[j]

RECURSIVE SortedSessionKeys(_)
\* The keys of turns.groupby(["dt", "app_id", "session_id"]), in order.
SortedSessionKeys(keys) ==
    IF keys = {} THEN <<>>
    ELSE LET m == CHOOSE k \in keys : \A o \in keys \ {k} : SessionKeyLess(k, o)
         IN  <<m>> \o SortedSessionKeys(keys \ {m})

RECURSIVE SumOver(_, _, _)
\* The sum of a column over the rows in I.
SumOver(rows, I, col) ==
    IF I = {} THEN 0
    ELSE LET i == CHOOSE x \in I : TRUE
         IN  rows[i][col] + SumOver(rows, I \ {i}, col)

\* (end_ts - start_ts).dt.total_seconds() * 1000.0, timestamps in seconds
duration_ms(start, end) == (end - start) * 1000

\* grp.agg(...) of build_sessions, with status "success": one row per key.
session_aggs(trs) ==
    LET keys == SortedSessionKeys({ SessionKey(trs[i]) : i \in DOMAIN trs })
    IN  [g \in DOMAIN keys |->
            LET k == keys[g]
                I == { i \in DOMAIN trs : SessionKey(trs[i]) = k }
            IN  [dt |-> k[1], app_id |-> k[2], session_id |-> k[3],
                 start_ts |-> Min({ trs[i].start_ts : i \in I }),
                 end_ts |-> Max({ trs[i].end_ts : i \in I }),
                 turns_count |-> Cardinality({ i \in I : trs[i].turn_index # NULL }),
                 model_spans_count |-> SumOver(trs, I, "model_spans_count"),
                 tool_calls_count |-> SumOver(trs, I, "tool_calls_count"),
                 total_input_tokens |-> sum_skipna(trs, I, "input_tokens"),
                 total_output_tokens |-> sum_skipna(trs, I, "output_tokens"),
                 duration_ms |-> duration_ms(Min({ trs[i].start_ts : i \in I }),
                                             Max({ trs[i].end_ts : i \in I })),
                 status |-> "success"]]

\* Order of two turn indices under sort_values: a missing index sorts last.
IndexLess(a, b) == a # NULL /\ (b = NULL \/ a < b)

ErrLessBySession(a, b) == a.session_id < b.session_id
\* Order of two rows under sort_values(["session_id", "turn_index"]).
ErrLess(a, b) ==
    \/ a.session_id < b.session_id
    \/ a.session_id = b.session_id /\ IndexLess(a.turn_index, b.turn_index)

\* The place of row i after the stable sort: behind the rows that are less
\* and the rows before it that are not greater.
ErrRank(rows, i) ==
    1 + Cardinality({ j \in DOMAIN rows :
                        \/ ErrLess(rows[j], rows[i])
                        \/ j < i /\ ~ErrLess(rows[i], rows[j]) })

\* .sort_values(["session_id", "turn_index"], kind="stable")
sort_errors(rows) ==
    [k \in DOMAIN rows |-> rows[CHOOSE i \in DOMAIN rows : ErrRank(rows, i) = k]]

\* .drop_duplicates(subset=["session_id"], keep="first")
drop_duplicates(rows) ==
    Pick(rows,
         { i \in DOMAIN rows : \A j \in 1 .. i - 1 : rows[j].session_id # rows[i].session_id },
         1)

\* first_errors: the error rows, sorted, the first of each session kept.
first_errors(raw_events) ==
    drop_duplicates(sort_errors(SelectSeq(raw_events, LAMBDA r : r.event_type = "error")))

\* sessions.merge(first_errors, on="session_id", how="left"), with the
\* columns renamed to first_error_turn and first_error_type.
merge_left(rows, first) ==
    Concat([i \in DOMAIN rows |->
               LET m == SelectSeq(first, LAMBDA r : r.session_id = rows[i].session_id)
                   row(t, e) ==
                       [c \in DOMAIN rows[i] \cup {"first_error_turn", "first_error_type"} |->
                           IF c = "first_error_turn" THEN t
                           ELSE IF c = "first_error_type" THEN e
                           ELSE rows[i][c]]
               IN  IF m = <<>> THEN << row(NULL, NULL) >>
                   ELSE [j \in DOMAIN m |-> row(m[j].turn_index, m[j].error_type)]])

\* build_sessions(turns, raw_events), on the columns the model keeps.
build_sessions(trs, raw_events) == merge_left(session_aggs(trs), first_errors(raw_events))

\* sessions = build_sessions(build_turns(raw_events), raw_events)
BuildSessions ==
    /\ ses_pc = "start"
    /\ sessions' = build_sessions(build_turns(ses_events), ses_events)
    /\ ses_pc' = "done"
    /\ UNCHANGED <<ses_events, ses_turns>>

MaxTurnRows == 3

\* The (dt, app_id, session_id) of the turns given to build_sessions: one
\* session id under two dates and two apps, and a second session.
TurnRowKeys == { <<1, 1, 1>>, <<2, 1, 1>>, <<1, 2, 1>>, <<1, 1, 2>> }

\* A turn row as build_turns returns it.
TurnRow(k, tidx, start, end, span_count, tool_count, inp, outp) ==
    [dt |-> k[1], app_id |-> k[2], session_id |-> k[3], turn_index |-> tidx,
     start_ts |-> start, end_ts |-> end, status |-> "success",
     react_iters |-> span_count, model_spans_count |-> span_count,
     tool_calls_count |-> tool_count,
     condense_count |-> 0, todo_update_count |-> 0, error_count |-> 0,
     input_tokens |-> inp, output_tokens |-> outp]

\* The turns of a session: a first turn and a later, longer second turn.
TurnRows ==
    { TurnRow(k, 1, 2, 3, 1, 0, 100, 50) : k \in TurnRowKeys }
    \cup { TurnRow(k, 2, 4, 9, 2, 1, 30, 7) : k \in TurnRowKeys }

\* The turns tables of up to n rows: no turn occurs twice.
TurnTables(n) ==
    { t \in UNION { [1 .. k -> TurnRows] : k \in 0 .. n } :
        \A i, j \in DOMAIN t : TurnKey(t[i]) = TurnKey(t[j]) => i = j }

\* The raw events given along: none, or a log in which the first session
\* has two errors and the second a message.
RawLogs ==
    { <<>>,
      Classified(Numbered(<< Ev(1, 5, "error", 2), Ev(1, 2, "error", 1), Ev(2, 2, "message", 1) >>)) }

\* sessions = build_sessions(turns, raw_events)
BuildSessionsFrom ==
    /\ ses_pc = "start"
    /\ sessions' = build_sessions(ses_turns, ses_events)
    /\ ses_pc' = "done"
    /\ UNCHANGED <<ses_events, ses_turns>>

(***************************************************************************)
(* The catalog (catalog.py)                                                *)
(***************************************************************************)

\* TableSpec, on the fields the catalog reads.
TableSpec(name, path, partition_keys) ==
    [name |-> name, path |-> path, partition_keys |-> partition_keys]

\* The specs of build_default_catalog("lake").
DefaultSpecs ==
    << TableSpec("raw_events", "lake/raw/events", <<"dt", "app_id", "session_id">>),
       TableSpec("sessions", "lake/derived/sessions", <<"dt", "app_id">>),
       TableSpec("turns", "lake/derived/turns", <<"dt", "app_id">>),
       TableSpec("turn_features", "lake/derived/turn_features", <<"dt", "app_id">>),
       TableSpec("errors", "lake/derived/errors", <<"dt", "app_id", "error_type">>),
       TableSpec("eval_runs", "lake/derived/eval_runs", <<"dt", "benchmark", "model">>) >>

\* The calendar days the filters range over are numbered from 1; the
\* window runs over a month end.
MaxDay == 4
Days == 1 .. MaxDay

\* date.isoformat() of a day of the window.
isoformat(n) ==
    CASE n = 1 -> "2026-02-27"
      [] n = 2 -> "2026-02-28"
      [] n = 3 -> "2026-03-01"
      [] n = 4 -> "2026-03-02"
      [] n = 5 -> "2026-03-03"
      [] OTHER -> "2026-03-04"

\* A string strptime reads as a day although isoformat never writes it, and
\* a string that names no calendar day.
LooseDay == "2026-3-1"
NoDay == "2026-02-30"

\* _parse_day(s): the day datetime.strptime(s, "%Y-%m-%d").date() returns,
\* or 0 when it raises ValueError.
parse_day(s) ==
    IF \E n \in Days : isoformat(n) = s THEN CHOOSE n \in Days : isoformat(n) = s
    ELSE IF s = LooseDay THEN 3
    ELSE 0

NotPastBefore(cur, end) == cur < end
\* while cur <= end
NotPast(cur, end) == cur <= end

RECURSIVE iso_dates(_, _)
\* _iso_dates(start, end)
iso_dates(cur, end) ==
    IF NotPast(cur, end) THEN <<isoformat(cur)>> \o iso_dates(cur + 1, end) ELSE <<>>

\* An Optional[str] is Absent or Given(s); None and "" are falsy.
Truthy(v) == v # Absent /\ v[1] # ""

\* f"{v}" of an Optional[str]
Format(v) == IF v = Absent THEN "None" ELSE v[1]

\* ReadFilters(...), and filters=None.
ReadFilters(dt, dt_from, dt_to, app_id, session_id) ==
    [dt |-> dt, dt_from |-> dt_from, dt_to |-> dt_to, app_id |-> app_id,
     session_id |-> session_id]
NoFilters == [none |-> TRUE]

\* The filters a caller passes.
DateValues == {Absent, Given(""), Given(LooseDay), Given(NoDay)} \cup { Given(isoformat(n)) : n \in Days }
ExactValues == {Absent, Given(""), Given(isoformat(1)), Given(LooseDay), Given(NoDay)}
IdValues(id) == {Absent, Given(""), Given(id)}
AllFilters ==
    {NoFilters} \cup
    { ReadFilters(dt, from, to, app, ses) :
        dt \in ExactValues, from \in DateValues, to \in DateValues,
        app \in IdValues("app123"), ses \in IdValues("s1") }

\* A path pattern: the root, the key=value directories under it in order,
\* and the glob of the files.
Pattern(root, dirs, leaf) == [root |-> root, dirs |-> dirs, leaf |-> leaf]

\* The outcome of resolve_partition_paths: the exception it raised ("none"
\* if it returned) and the list it returned.
Raised(e) == [err |-> e, paths |-> <<>>]
Returned(paths) == [err |-> "none", paths |-> paths]
Unresolved == Raised(NotRun)

\* The days of a filter with both bounds.
range_days(f) ==
    LET start == parse_day(f.dt_from[1])
        end == parse_day(f.dt_to[1])
    IN  IF start = 0 \/ end = 0 THEN Raised("ValueError")
        ELSE Returned(iso_dates(start, end))

\* days, as resolve_partition_paths computes it.
days_of(f) ==
    IF Truthy(f.dt) THEN Returned(<<f.dt[1]>>)
    ELSE IF Truthy(f.dt_from) /\ Truthy(f.dt_to) THEN range_days(f)
    ELSE IF Truthy(f.dt_from) THEN Returned(<<f.dt_from[1]>>)
    ELSE IF Truthy(f.dt_to) THEN Returned(<<f.dt_to[1]>>)
    ELSE Returned(<<"*">>)

\* app = filters.app_id or "*"
app_of(spec, f) == IF Truthy(f.app_id) THEN f.app_id[1] ELSE "*"

\* session = filters.session_id if "session_id" in spec.partition_keys else "*"
session_of(spec, f) ==
    IF "session_id" \in Range(spec.partition_keys) THEN Format(f.session_id) ELSE "*"

\* root / f"dt={d}" / f"app_id={app}" / f"session_id={session}" / "*.parquet"
pattern_of(spec, f, d) ==
    Pattern(spec.path,
            << <<"dt", d>>, <<"app_id", app_of(spec, f)>>, <<"session_id", session_of(spec, f)>> >>,
            "*.parquet")

\* resolve_partition_paths(spec, filters)
resolve_partition_paths(spec, f) ==
    IF f = NoFilters THEN Returned(<< Pattern(spec.path, <<>>, "**/*.parquet") >>)
    ELSE LET days == days_of(f)
         IN  IF days.err # "none" THEN days
             ELSE Returned([k \in DOMAIN days.paths |-> pattern_of(spec, f, days.paths[k])])

\* paths = resolve_partition_paths(spec, filters)
Resolve ==
    /\ res_pc = "start"
    /\ resolved' = resolve_partition_paths(table_spec, filters)
    /\ res_pc' = "done"
    /\ UNCHANGED <<table_spec, filters>>

(***************************************************************************)
(* InMemoryCatalog (catalog.py)                                            *)
(***************************************************************************)

MaxRegisters == 3

\* The names and the specs the catalog is used with.
TableNames == {"turns", "errors"}
TableSpecs ==
    {DefaultSpecs[3], DefaultSpecs[5], TableSpec("turns", "lake/v3/turns", <<"dt">>)}

NoSpec == TableSpec("", "", <<>>)

\* The outcome of get: the exception it raised ("none" if it returned) and
\* the spec it returned.
GetRaised(e) == [err |-> e, spec |-> NoSpec]
GetReturned(spec) == [err |-> "none", spec |-> spec]

\* sorted(self._tables) lists the names in string order.
NameOrder == <<"errors", "turns">>
sorted(d) == SelectSeq(NameOrder, LAMBDA n : n \in Keys(d))

\* The text of the KeyError: the name asked for and the names listed.
NoMessage == [table |-> "", registered |-> <<>>]
message_bare(d, table) == [table |-> table, registered |-> <<>>]
\* f"Unknown table '{table}'. Registered: {sorted(self._tables)}"
message(d, table) == [table |-> table, registered |-> sorted(d)]

\* The record of a get call: its name, its outcome, the text of the
\* exception it raised and the number of register calls made before it.
NoGet == [name |-> "", res |-> GetRaised(NotRun), at |-> 0, msg |-> NoMessage]

\* The record of a list call: the names it returned and the number of
\* register calls made before it.
NoList == [names |-> <<>>, at |-> 0, done |-> FALSE]

store_first(d, k, v) == IF k \in Keys(d) THEN d ELSE Append(d, <<k, v>>)
\* self._tables[table] = spec
store(d, k, v) ==
    IF k \in Keys(d) THEN [i \in DOMAIN d |-> IF d[i][1] = k THEN <<k, v>> ELSE d[i]]
    ELSE Append(d, <<k, v>>)

\* InMemoryCatalog.get(table), on the dict it reads
get(d, table) ==
    IF table \notin Keys(d) THEN GetRaised("KeyError") ELSE GetReturned(Lookup(d, table))

\* The text get(table) raises with, if it raises.
raised_with(d, table) == IF table \notin Keys(d) THEN message(d, table) ELSE NoMessage

\* InMemoryCatalog.register(table, spec)
Register(table, spec) ==
    /\ Len(registered) < MaxRegisters
    /\ tables' = store(tables, table, spec)
    /\ registered' = Append(registered, <<table, spec>>)
    /\ UNCHANGED <<got, listed>>

\* InMemoryCatalog.get(table)
GetTable(table) ==
    /\ got' = [name |-> table, res |-> get(tables, table), at |-> Len(registered),
               msg |-> raised_with(tables, table)]
    /\ UNCHANGED <<tables, registered, listed>>

\* InMemoryCatalog.list()
List ==
    /\ listed' = [names |-> sorted(tables), at |-> Len(registered), done |-> TRUE]
    /\ UNCHANGED <<tables, registered, got>>

(***************************************************************************)
(* WorkerRuntime and Batch (runtime.py, operators.py)                      *)
(***************************************************************************)

MaxRuntimes == 2
MaxWraps == 2
MaxCalls == 3

\* The record of a call: the method, the runtime and the batch it was made
\* on (NULL without a batch) and the connection it returned (NULL for none).
Call(op, rt, b, conn) == [op |-> op, runtime |-> rt, batch |-> b, conn |-> conn]

NeedsConnAlways(c) == TRUE
\* self._duckdb_conn is None
NeedsConn(c) == c = NULL

\* WorkerRuntime.duckdb_conn on the runtime's field: the field after the
\* call, given the connection duckdb.connect() would return.
duckdb_conn(c, fresh) == IF NeedsConn(c) THEN fresh ELSE c

\* runtime = WorkerRuntime(): the field defaults to None
NewRuntime ==
    /\ Len(conns) < MaxRuntimes
    /\ conns' = Append(conns, NULL)
    /\ UNCHANGED <<connects, wrapped, views, rt_calls>>

\* wrapped = Batch(batch_tbl, runtime=runtime)
WrapBatch(rt) ==
    /\ Len(wrapped) < MaxWraps
    /\ wrapped' = Append(wrapped, rt)
    /\ UNCHANGED <<conns, connects, views, rt_calls>>

\* Batch.arrow()
Arrow(b) ==
    /\ Len(rt_calls) < MaxCalls
    /\ rt_calls' = Append(rt_calls, Call("arrow", wrapped[b], b, NULL))
    /\ UNCHANGED <<conns, connects, wrapped, views>>

\* WorkerRuntime.duckdb_conn()
DuckdbConn(rt) ==
    /\ Len(rt_calls) < MaxCalls
    /\ conns' = [conns EXCEPT ![rt] = duckdb_conn(conns[rt], connects + 1)]
    /\ connects' = IF NeedsConn(conns[rt]) THEN connects + 1 ELSE connects
    /\ views' = IF NeedsConn(conns[rt]) THEN Append(views, NULL) ELSE views
    /\ rt_calls' = Append(rt_calls, Call("duckdb_conn", rt, NULL, conns'[rt]))
    /\ UNCHANGED wrapped

\* Batch.duckdb(): the runtime's connection, with this batch registered
\* on it as "batch"
Duckdb(b) ==
    /\ Len(rt_calls) < MaxCalls
    /\ conns' = [conns EXCEPT ![wrapped[b]] = duckdb_conn(conns[wrapped[b]], connects + 1)]
    /\ connects' = IF NeedsConn(conns[wrapped[b]]) THEN connects + 1 ELSE connects
    /\ views' = [i \in 1 .. connects' |-> IF i = conns'[wrapped[b]] THEN b
                                          ELSE IF i <= connects THEN views[i] ELSE NULL]
    /\ rt_calls' = Append(rt_calls, Call("duckdb", wrapped[b], b, conns'[wrapped[b]]))
    /\ UNCHANGED wrapped

(***************************************************************************)
(* Context.write (context.py)                                              *)
(***************************************************************************)

MaxWrites == 2

\* The names under the destination, in string order: a file and a
\* partition directory that may exist beforehand, and the file each write
\* call names after itself.
Names == <<"a.parquet", "dt=1", "w1.parquet", "w2.parquet", "w3.parquet", "w4.parquet">>
NameRank(n) == CHOOSE i \in DOMAIN Names : Names[i] = n
WrittenName(w) == Names[w + 2]

\* An entry under the destination: its path relative to it, whether it is
\* a file or a directory, and the write call that made it (0: none).
Entry(path, kind, by) == [path |-> path, kind |-> kind, by |-> by]
OldFile == Entry(<<"a.parquet">>, "file", 0)
OldDir == Entry(<<"dt=1">>, "dir", 0)
OldPartFile == Entry(<<"dt=1", "a.parquet">>, "file", 0)

\* What the destination may hold before the first write.
Trees ==
    { t \in SUBSET {OldFile, OldDir, OldPartFile} : OldPartFile \in t => OldDir \in t }

\* Path.__lt__: paths compare by their parts, a path before its children.
PathLess(p, q) ==
    \E k \in 1 .. Len(q) :
        /\ \A j \in 1 .. (k - 1) : j <= Len(p) /\ p[j] = q[j]
        /\ k > Len(p) \/ NameRank(p[k]) < NameRank(q[k])

\* sorted(out.rglob("*"), reverse=True)
RECURSIVE sorted_reverse(_)
sorted_reverse(S) ==
    IF S = {} THEN <<>>
    ELSE LET m == CHOOSE p \in S : \A q \in S \ {p} : PathLess(q, p)
         IN  <<m>> \o sorted_reverse(S \ {m})

Paths(t) == { e.path : e \in t }
At(t, p) == CHOOSE e \in t : e.path = p
Children(t, p) == { e \in t : Len(e.path) = Len(p) + 1 /\ SubSeq(e.path, 1, Len(p)) = p }

ClearsNever(mode, exists) == FALSE
\* mode == "overwrite" and out.exists()
Clears(mode, exists) == mode = "overwrite" /\ exists

\* The files ds.write_parquet writes for write call w: none for an empty
\* dataset, one at the top, or one under the partition directory when
\* partition_by is given.
Plans(w) ==
    { <<>>, << <<WrittenName(w)>> >>, << <<"dt=1", WrittenName(w)>> >> }

\* Context.write(ds, table, mode=mode), up to the overwrite loop
BeginWrite(mode, plan) ==
    /\ wpc = "idle"
    /\ wid < MaxWrites
    /\ wid' = wid + 1
    /\ wmode' = mode
    /\ before' = fs
    /\ pending' = plan
    /\ IF Clears(mode, out_exists)
       THEN todo' = sorted_reverse(Paths(fs)) /\ wpc' = "delete"
       ELSE todo' = <<>> /\ wpc' = "mkdir"
    /\ UNCHANGED <<fs, out_exists>>

\* One pass of the loop: p.unlink() for a file, p.rmdir() for a
\* directory, which raises OSError when the directory is not empty.
DeleteStep ==
    /\ wpc = "delete"
    /\ todo # <<>>
    /\ LET p == Head(todo)
       IN  IF p \notin Paths(fs) THEN fs' = fs /\ wpc' = wpc
           ELSE IF At(fs, p).kind = "file" THEN fs' = fs \ {At(fs, p)} /\ wpc' = wpc
           ELSE IF Children(fs, p) = {} THEN fs' = fs \ {At(fs, p)} /\ wpc' = wpc
           ELSE fs' = fs /\ wpc' = "raised"
    /\ todo' = Tail(todo)
    /\ UNCHANGED <<out_exists, wmode, wid, pending, before>>

\* out.rmdir() after the loop
RmdirOut ==
    /\ wpc = "delete"
    /\ todo = <<>>
    /\ IF fs = {} THEN out_exists' = FALSE /\ wpc' = "mkdir"
       ELSE out_exists' = out_exists /\ wpc' = "raised"
    /\ UNCHANGED <<fs, wmode, wid, todo, pending, before>>

\* out.mkdir(parents=True, exist_ok=True)
Mkdir ==
    /\ wpc = "mkdir"
    /\ out_exists' = TRUE
    /\ wpc' = "write"
    /\ UNCHANGED <<fs, wmode, wid, todo, pending, before>>

\* The entries a new file adds: the file, and its partition directory if
\* that is not there yet.
Written(t, p, w) ==
    {Entry(p, "file", w)}
    \cup (IF Len(p) = 2 /\ <<p[1]>> \notin Paths(t) THEN {Entry(<<p[1]>>, "dir", w)} ELSE {})

\* ds.write_parquet(str(out)), one file at a time
WriteFile ==
    /\ wpc = "write"
    /\ pending # <<>>
    /\ fs' = fs \cup Written(fs, Head(pending), wid)
    /\ pending' = Tail(pending)
    /\ UNCHANGED <<out_exists, wpc, wmode, wid, todo, before>>

\* The write call returns.
EndWrite ==
    /\ wpc = "write"
    /\ pending = <<>>
    /\ wpc' = "idle"
    /\ UNCHANGED <<fs, out_exists, wmode, wid, todo, pending, before>>

(***************************************************************************)
(* Specifications                                                          *)
(***************************************************************************)

DoRun ==
    /\ \E req \in BOOLEAN, params \in Estimates : Run(req, params)
    /\ UNCHANGED <<normVars, applyVars, turnVars, spanVars, flowVars, toolVars, sesVars, resVars, catVars, rtVars, wrVars, appsVars>>


DoSingleMap ==
    /\ \E b \in NormBatches, out \in OutShapes : SingleMap(b, out)
    /\ UNCHANGED <<runnerVars, applyVars, turnVars, spanVars, flowVars, toolVars, sesVars, resVars, catVars, rtVars, wrVars, appsVars>>

DoFanoutMap ==
    /\ \E b \in NormBatches, out \in OutShapes : FanoutMap(b, out)
    /\ UNCHANGED <<runnerVars, applyVars, turnVars, spanVars, flowVars, toolVars, sesVars, resVars, catVars, rtVars, wrVars, appsVars>>


DoApplyFanout ==
    /\ \E b \in ApplyBatches : ApplyFanout(b)
    /\ UNCHANGED <<runnerVars, normVars, turnVars, spanVars, flowVars, toolVars, sesVars, resVars, catVars, rtVars, wrVars, appsVars>>

DoApplySessions ==
    /\ \E b \in ApplyBatches : ApplySessions(b)
    /\ UNCHANGED <<runnerVars, normVars, applyVars, turnVars, spanVars, flowVars, toolVars, sesVars, resVars, catVars, rtVars, wrVars>>


DoAssign ==
    /\ Assign
    /\ UNCHANGED <<runnerVars, normVars, applyVars, spanVars, flowVars, toolVars, sesVars, resVars, catVars, rtVars, wrVars, appsVars>>

DoBuildTurns ==
    /\ BuildTurns
    /\ UNCHANGED <<runnerVars, normVars, applyVars, spanVars, flowVars, toolVars, sesVars, resVars, catVars, rtVars, wrVars, appsVars>>

DoAssignAgain ==
    /\ AssignAgain
    /\ UNCHANGED <<runnerVars, normVars, applyVars, spanVars, flowVars, toolVars, sesVars, resVars, catVars, rtVars, wrVars, appsVars>>

DoTransform ==
    /\ Transform
    /\ UNCHANGED <<runnerVars, normVars, applyVars, spanVars, flowVars, toolVars, sesVars, resVars, catVars, rtVars, wrVars, appsVars>>

DoTransformAgain ==
    /\ TransformAgain
    /\ UNCHANGED <<runnerVars, normVars, applyVars, spanVars, flowVars, toolVars, sesVars, resVars, catVars, rtVars, wrVars, appsVars>>


DoBuildSpans ==
    /\ BuildSpans
    /\ UNCHANGED <<runnerVars, normVars, applyVars, turnVars, flowVars, toolVars, sesVars, resVars, catVars, rtVars, wrVars, appsVars>>


DoAssignTurns ==
    /\ AssignTurns
    /\ UNCHANGED <<runnerVars, normVars, applyVars, turnVars, spanVars, toolVars, sesVars, resVars, catVars, rtVars, wrVars, appsVars>>

DoFlowModelSpans ==
    /\ FlowModelSpans
    /\ UNCHANGED <<runnerVars, normVars, applyVars, turnVars, spanVars, toolVars, sesVars, resVars, catVars, rtVars, wrVars, appsVars>>

DoFlowToolCalls ==
    /\ FlowToolCalls
    /\ UNCHANGED <<runnerVars, normVars, applyVars, turnVars, spanVars, toolVars, sesVars, resVars, catVars, rtVars, wrVars, appsVars>>

DoFlowTurns ==
    /\ FlowTurns
    /\ UNCHANGED <<runnerVars, normVars, applyVars, turnVars, spanVars, toolVars, sesVars, resVars, catVars, rtVars, wrVars, appsVars>>

DoBuildToolCalls ==
    /\ BuildToolCalls
    /\ UNCHANGED <<runnerVars, normVars, applyVars, turnVars, spanVars, flowVars, sesVars, resVars, catVars, rtVars, wrVars, appsVars>>

DoBuildSessions ==
    /\ BuildSessions
    /\ UNCHANGED <<runnerVars, normVars, applyVars, turnVars, spanVars, flowVars, toolVars, resVars, catVars, rtVars, wrVars, appsVars>>

DoBuildSessionsFrom ==
    /\ BuildSessionsFrom
    /\ UNCHANGED <<runnerVars, normVars, applyVars, turnVars, spanVars, flowVars, toolVars, resVars, catVars, rtVars, wrVars, appsVars>>

DoResolve ==
    /\ Resolve
    /\ UNCHANGED <<runnerVars, normVars, applyVars, turnVars, spanVars, flowVars, toolVars, sesVars, catVars, rtVars, wrVars, appsVars>>

DoRegister ==
    /\ \E table \in TableNames, spec \in TableSpecs : Register(table, spec)
    /\ UNCHANGED <<runnerVars, normVars, applyVars, turnVars, spanVars, flowVars, toolVars, sesVars, resVars, rtVars, wrVars, appsVars>>

DoGetTable ==
    /\ \E table \in TableNames : GetTable(table)
    /\ UNCHANGED <<runnerVars, normVars, applyVars, turnVars, spanVars, flowVars, toolVars, sesVars, resVars, rtVars, wrVars, appsVars>>

DoList ==
    /\ List
    /\ UNCHANGED <<runnerVars, normVars, applyVars, turnVars, spanVars, flowVars, toolVars, sesVars, resVars, rtVars, wrVars, appsVars>>

DoNewRuntime ==
    /\ NewRuntime
    /\ UNCHANGED <<runnerVars, normVars, applyVars, turnVars, spanVars, flowVars, toolVars, sesVars, resVars, catVars, wrVars, appsVars>>

DoWrapBatch ==
    /\ \E rt \in DOMAIN conns : WrapBatch(rt)
    /\ UNCHANGED <<runnerVars, normVars, applyVars, turnVars, spanVars, flowVars, toolVars, sesVars, resVars, catVars, wrVars, appsVars>>

DoArrow ==
    /\ \E b \in DOMAIN wrapped : Arrow(b)
    /\ UNCHANGED <<runnerVars, normVars, applyVars, turnVars, spanVars, flowVars, toolVars, sesVars, resVars, catVars, wrVars, appsVars>>

DoDuckdbConn ==
    /\ \E rt \in DOMAIN conns : DuckdbConn(rt)
    /\ UNCHANGED <<runnerVars, normVars, applyVars, turnVars, spanVars, flowVars, toolVars, sesVars, resVars, catVars, wrVars, appsVars>>

DoDuckdb ==
    /\ \E b \in DOMAIN wrapped : Duckdb(b)
    /\ UNCHANGED <<runnerVars, normVars, applyVars, turnVars, spanVars, flowVars, toolVars, sesVars, resVars, catVars, wrVars, appsVars>>

DoBeginWrite ==
    /\ \E mode \in {"append", "overwrite"}, plan \in Plans(wid + 1) : BeginWrite(mode, plan)
    /\ UNCHANGED <<runnerVars, normVars, applyVars, turnVars, spanVars, flowVars, toolVars, sesVars, resVars, catVars, rtVars, appsVars>>

DoDeleteStep ==
    /\ DeleteStep
    /\ UNCHANGED <<runnerVars, normVars, applyVars, turnVars, spanVars, flowVars, toolVars, sesVars, resVars, catVars, rtVars, appsVars>>

DoRmdirOut ==
    /\ RmdirOut
    /\ UNCHANGED <<runnerVars, normVars, applyVars, turnVars, spanVars, flowVars, toolVars, sesVars, resVars, catVars, rtVars, appsVars>>

DoMkdir ==
    /\ Mkdir
    /\ UNCHANGED <<runnerVars, normVars, applyVars, turnVars, spanVars, flowVars, toolVars, sesVars, resVars, catVars, rtVars, appsVars>>

DoWriteFile ==
    /\ WriteFile
    /\ UNCHANGED <<runnerVars, normVars, applyVars, turnVars, spanVars, flowVars, toolVars, sesVars, resVars, catVars, rtVars, appsVars>>

DoEndWrite ==
    /\ EndWrite
    /\ UNCHANGED <<runnerVars, normVars, applyVars, turnVars, spanVars, flowVars, toolVars, sesVars, resVars, catVars, rtVars, appsVars>>

RunnerInit ==
    /\ threshold \in Thresholds
    /\ plugin_req = FALSE
    /\ params_est = Absent
    /\ engine = NotRun
    /\ runs = 0
    /\ op_outputs = <<"out">>
    /\ op_out = <<>>
    /\ norm = <<>>
    /\ blocks = <<>>
    /\ raw = <<>>
    /\ batch_of = <<>>
    /\ bte_out = <<>>
    /\ mixed = <<>>
    /\ events = <<>>
    /\ pc = NotRun
    /\ with_turns = <<>>
    /\ again = <<>>
    /\ turns = <<>>
    /\ op_pc = NotRun
    /\ op_res = NoRes
    /\ op_res2 = NoRes
    /\ span_events = <<>>
    /\ span_pc = NotRun
    /\ spans = <<>>
    /\ batch = <<>>
    /\ flow = NotRun
    /\ indexed = <<>>
    /\ built = {}
    /\ model_spans = <<>>
    /\ tool_calls = <<>>
    /\ turn_rows = <<>>
    /\ tool_events = <<>>
    /\ tool_pc = NotRun
    /\ tools = <<>>
    /\ ses_events = <<>>
    /\ ses_pc = NotRun
    /\ sessions = <<>>
    /\ table_spec = DefaultSpecs[1]
    /\ filters = NoFilters
    /\ res_pc = NotRun
    /\ resolved = Unresolved
    /\ tables = <<>>
    /\ registered = <<>>
    /\ got = NoGet
    /\ listed = NoList
    /\ conns = <<>>
    /\ connects = 0
    /\ wrapped = <<>>
    /\ views = <<>>
    /\ rt_calls = <<>>
    /\ fs = {}
    /\ out_exists = FALSE
    /\ wpc = "idle"
    /\ wmode = "append"
    /\ wid = 0
    /\ todo = <<>>
    /\ pending = <<>>
    /\ before = {}
    /\ ses_turns = <<>>
    /\ turn_ds = <<>>
    /\ turn_batch_of = <<>>
    /\ ses_blocks = <<>>

RunnerNext ==
    \/ DoRun

SpecRunner == RunnerInit /\ [][RunnerNext]_vars

NormInit ==
    /\ threshold = DefaultThreshold
    /\ plugin_req = FALSE
    /\ params_est = Absent
    /\ engine = NotRun
    /\ runs = 0
    /\ op_outputs \in Declared
    /\ op_out = [b \in NormBatches |-> Unset]
    /\ norm = [b \in NormBatches |-> NotCalled]
    /\ blocks = [b \in NormBatches |-> Pending]
    /\ raw = <<>>
    /\ batch_of = <<>>
    /\ bte_out = <<>>
    /\ mixed = <<>>
    /\ events = <<>>
    /\ pc = NotRun
    /\ with_turns = <<>>
    /\ again = <<>>
    /\ turns = <<>>
    /\ op_pc = NotRun
    /\ op_res = NoRes
    /\ op_res2 = NoRes
    /\ span_events = <<>>
    /\ span_pc = NotRun
    /\ spans = <<>>
    /\ batch = <<>>
    /\ flow = NotRun
    /\ indexed = <<>>
    /\ built = {}
    /\ model_spans = <<>>
    /\ tool_calls = <<>>
    /\ turn_rows = <<>>
    /\ tool_events = <<>>
    /\ tool_pc = NotRun
    /\ tools = <<>>
    /\ ses_events = <<>>
    /\ ses_pc = NotRun
    /\ sessions = <<>>
    /\ table_spec = DefaultSpecs[1]
    /\ filters = NoFilters
    /\ res_pc = NotRun
    /\ resolved = Unresolved
    /\ tables = <<>>
    /\ registered = <<>>
    /\ got = NoGet
    /\ listed = NoList
    /\ conns = <<>>
    /\ connects = 0
    /\ wrapped = <<>>
    /\ views = <<>>
    /\ rt_calls = <<>>
    /\ fs = {}
    /\ out_exists = FALSE
    /\ wpc = "idle"
    /\ wmode = "append"
    /\ wid = 0
    /\ todo = <<>>
    /\ pending = <<>>
    /\ before = {}
    /\ ses_turns = <<>>
    /\ turn_ds = <<>>
    /\ turn_batch_of = <<>>
    /\ ses_blocks = <<>>

NormNext ==
    \/ DoSingleMap
    \/ DoFanoutMap

SpecNorm == NormInit /\ [][NormNext]_vars

ApplyInit ==
    /\ threshold = DefaultThreshold
    /\ plugin_req = FALSE
    /\ params_est = Absent
    /\ engine = NotRun
    /\ runs = 0
    /\ op_outputs = <<"out">>
    /\ op_out = <<>>
    /\ norm = <<>>
    /\ blocks = <<>>
    /\ raw \in Logs(ApplyEvents, MaxRows)
    /\ batch_of \in [DOMAIN raw -> ApplyBatches]
    /\ bte_out = [b \in ApplyBatches |-> Unset]
    /\ mixed = [b \in ApplyBatches |-> Pending]
    /\ events = <<>>
    /\ pc = NotRun
    /\ with_turns = <<>>
    /\ again = <<>>
    /\ turns = <<>>
    /\ op_pc = NotRun
    /\ op_res = NoRes
    /\ op_res2 = NoRes
    /\ span_events = <<>>
    /\ span_pc = NotRun
    /\ spans = <<>>
    /\ batch = <<>>
    /\ flow = NotRun
    /\ indexed = <<>>
    /\ built = {}
    /\ model_spans = <<>>
    /\ tool_calls = <<>>
    /\ turn_rows = <<>>
    /\ tool_events = <<>>
    /\ tool_pc = NotRun
    /\ tools = <<>>
    /\ ses_events = <<>>
    /\ ses_pc = NotRun
    /\ sessions = <<>>
    /\ table_spec = DefaultSpecs[1]
    /\ filters = NoFilters
    /\ res_pc = NotRun
    /\ resolved = Unresolved
    /\ tables = <<>>
    /\ registered = <<>>
    /\ got = NoGet
    /\ listed = NoList
    /\ conns = <<>>
    /\ connects = 0
    /\ wrapped = <<>>
    /\ views = <<>>
    /\ rt_calls = <<>>
    /\ fs = {}
    /\ out_exists = FALSE
    /\ wpc = "idle"
    /\ wmode = "append"
    /\ wid = 0
    /\ todo = <<>>
    /\ pending = <<>>
    /\ before = {}
    /\ ses_turns = <<>>
    /\ turn_ds = <<>>
    /\ turn_batch_of = <<>>
    /\ ses_blocks = <<>>

ApplyNext ==
    \/ DoApplyFanout

SpecApply == ApplyInit /\ [][ApplyNext]_vars

ApplySessionsInit ==
    /\ threshold = DefaultThreshold
    /\ plugin_req = FALSE
    /\ params_est = Absent
    /\ engine = NotRun
    /\ runs = 0
    /\ op_outputs = <<"out">>
    /\ op_out = <<>>
    /\ norm = <<>>
    /\ blocks = <<>>
    /\ raw = <<>>
    /\ batch_of = <<>>
    /\ bte_out = <<>>
    /\ mixed = <<>>
    /\ events = <<>>
    /\ pc = NotRun
    /\ with_turns = <<>>
    /\ again = <<>>
    /\ turns = <<>>
    /\ op_pc = NotRun
    /\ op_res = NoRes
    /\ op_res2 = NoRes
    /\ span_events = <<>>
    /\ span_pc = NotRun
    /\ spans = <<>>
    /\ batch = <<>>
    /\ flow = NotRun
    /\ indexed = <<>>
    /\ built = {}
    /\ model_spans = <<>>
    /\ tool_calls = <<>>
    /\ turn_rows = <<>>
    /\ tool_events = <<>>
    /\ tool_pc = NotRun
    /\ tools = <<>>
    /\ ses_events = <<>>
    /\ ses_pc = NotRun
    /\ sessions = <<>>
    /\ table_spec = DefaultSpecs[1]
    /\ filters = NoFilters
    /\ res_pc = NotRun
    /\ resolved = Unresolved
    /\ tables = <<>>
    /\ registered = <<>>
    /\ got = NoGet
    /\ listed = NoList
    /\ conns = <<>>
    /\ connects = 0
    /\ wrapped = <<>>
    /\ views = <<>>
    /\ rt_calls = <<>>
    /\ fs = {}
    /\ out_exists = FALSE
    /\ wpc = "idle"
    /\ wmode = "append"
    /\ wid = 0
    /\ todo = <<>>
    /\ pending = <<>>
    /\ before = {}
    /\ ses_turns = <<>>
    /\ turn_ds \in TurnDatasets(MaxRows)
    /\ turn_batch_of \in [DOMAIN turn_ds -> ApplyBatches]
    /\ ses_blocks = [b \in ApplyBatches |-> Pending]

ApplySessionsNext ==
    \/ DoApplySessions

SpecApplySessions == ApplySessionsInit /\ [][ApplySessionsNext]_vars

TurnsInit ==
    /\ threshold = DefaultThreshold
    /\ plugin_req = FALSE
    /\ params_est = Absent
    /\ engine = NotRun
    /\ runs = 0
    /\ op_outputs = <<"out">>
    /\ op_out = <<>>
    /\ norm = <<>>
    /\ blocks = <<>>
    /\ raw = <<>>
    /\ batch_of = <<>>
    /\ bte_out = <<>>
    /\ mixed = <<>>
    /\ events \in Logs(TurnEvents, MaxEvents)
    /\ pc = "start"
    /\ with_turns = <<>>
    /\ again = <<>>
    /\ turns = <<>>
    /\ op_pc = "start"
    /\ op_res = NoRes
    /\ op_res2 = NoRes
    /\ span_events = <<>>
    /\ span_pc = NotRun
    /\ spans = <<>>
    /\ batch = <<>>
    /\ flow = NotRun
    /\ indexed = <<>>
    /\ built = {}
    /\ model_spans = <<>>
    /\ tool_calls = <<>>
    /\ turn_rows = <<>>
    /\ tool_events = <<>>
    /\ tool_pc = NotRun
    /\ tools = <<>>
    /\ ses_events = <<>>
    /\ ses_pc = NotRun
    /\ sessions = <<>>
    /\ table_spec = DefaultSpecs[1]
    /\ filters = NoFilters
    /\ res_pc = NotRun
    /\ resolved = Unresolved
    /\ tables = <<>>
    /\ registered = <<>>
    /\ got = NoGet
    /\ listed = NoList
    /\ conns = <<>>
    /\ connects = 0
    /\ wrapped = <<>>
    /\ views = <<>>
    /\ rt_calls = <<>>
    /\ fs = {}
    /\ out_exists = FALSE
    /\ wpc = "idle"
    /\ wmode = "append"
    /\ wid = 0
    /\ todo = <<>>
    /\ pending = <<>>
    /\ before = {}
    /\ ses_turns = <<>>
    /\ turn_ds = <<>>
    /\ turn_batch_of = <<>>
    /\ ses_blocks = <<>>

TurnsNext ==
    \/ DoAssign
    \/ DoBuildTurns
    \/ DoAssignAgain
    \/ DoTransform
    \/ DoTransformAgain

SpecTurns == TurnsInit /\ [][TurnsNext]_vars

SpansInit ==
    /\ threshold = DefaultThreshold
    /\ plugin_req = FALSE
    /\ params_est = Absent
    /\ engine = NotRun
    /\ runs = 0
    /\ op_outputs = <<"out">>
    /\ op_out = <<>>
    /\ norm = <<>>
    /\ blocks = <<>>
    /\ raw = <<>>
    /\ batch_of = <<>>
    /\ bte_out = <<>>
    /\ mixed = <<>>
    /\ events = <<>>
    /\ pc = NotRun
    /\ with_turns = <<>>
    /\ again = <<>>
    /\ turns = <<>>
    /\ op_pc = NotRun
    /\ op_res = NoRes
    /\ op_res2 = NoRes
    /\ span_events \in Logs(SpanEvents, MaxSpanEvents)
    /\ span_pc = "start"
    /\ spans = <<>>
    /\ batch = <<>>
    /\ flow = NotRun
    /\ indexed = <<>>
    /\ built = {}
    /\ model_spans = <<>>
    /\ tool_calls = <<>>
    /\ turn_rows = <<>>
    /\ tool_events = <<>>
    /\ tool_pc = NotRun
    /\ tools = <<>>
    /\ ses_events = <<>>
    /\ ses_pc = NotRun
    /\ sessions = <<>>
    /\ table_spec = DefaultSpecs[1]
    /\ filters = NoFilters
    /\ res_pc = NotRun
    /\ resolved = Unresolved
    /\ tables = <<>>
    /\ registered = <<>>
    /\ got = NoGet
    /\ listed = NoList
    /\ conns = <<>>
    /\ connects = 0
    /\ wrapped = <<>>
    /\ views = <<>>
    /\ rt_calls = <<>>
    /\ fs = {}
    /\ out_exists = FALSE
    /\ wpc = "idle"
    /\ wmode = "append"
    /\ wid = 0
    /\ todo = <<>>
    /\ pending = <<>>
    /\ before = {}
    /\ ses_turns = <<>>
    /\ turn_ds = <<>>
    /\ turn_batch_of = <<>>
    /\ ses_blocks = <<>>

SpansNext ==
    \/ DoBuildSpans

SpecSpans == SpansInit /\ [][SpansNext]_vars

FlowInit ==
    /\ threshold = DefaultThreshold
    /\ plugin_req = FALSE
    /\ params_est = Absent
    /\ engine = NotRun
    /\ runs = 0
    /\ op_outputs = <<"out">>
    /\ op_out = <<>>
    /\ norm = <<>>
    /\ blocks = <<>>
    /\ raw = <<>>
    /\ batch_of = <<>>
    /\ bte_out = <<>>
    /\ mixed = <<>>
    /\ events = <<>>
    /\ pc = NotRun
    /\ with_turns = <<>>
    /\ again = <<>>
    /\ turns = <<>>
    /\ op_pc = NotRun
    /\ op_res = NoRes
    /\ op_res2 = NoRes
    /\ span_events = <<>>
    /\ span_pc = NotRun
    /\ spans = <<>>
    /\ batch \in Scenarios
    /\ flow = "start"
    /\ indexed = <<>>
    /\ built = {}
    /\ model_spans = <<>>
    /\ tool_calls = <<>>
    /\ turn_rows = <<>>
    /\ tool_events = <<>>
    /\ tool_pc = NotRun
    /\ tools = <<>>
    /\ ses_events = <<>>
    /\ ses_pc = NotRun
    /\ sessions = <<>>
    /\ table_spec = DefaultSpecs[1]
    /\ filters = NoFilters
    /\ res_pc = NotRun
    /\ resolved = Unresolved
    /\ tables = <<>>
    /\ registered = <<>>
    /\ got = NoGet
    /\ listed = NoList
    /\ conns = <<>>
    /\ connects = 0
    /\ wrapped = <<>>
    /\ views = <<>>
    /\ rt_calls = <<>>
    /\ fs = {}
    /\ out_exists = FALSE
    /\ wpc = "idle"
    /\ wmode = "append"
    /\ wid = 0
    /\ todo = <<>>
    /\ pending = <<>>
    /\ before = {}
    /\ ses_turns = <<>>
    /\ turn_ds = <<>>
    /\ turn_batch_of = <<>>
    /\ ses_blocks = <<>>

FlowNext ==
    \/ DoAssignTurns
    \/ DoFlowModelSpans
    \/ DoFlowToolCalls
    \/ DoFlowTurns

SpecFlow == FlowInit /\ [][FlowNext]_vars

ToolsInit ==
    /\ threshold = DefaultThreshold
    /\ plugin_req = FALSE
    /\ params_est = Absent
    /\ engine = NotRun
    /\ runs = 0
    /\ op_outputs = <<"out">>
    /\ op_out = <<>>
    /\ norm = <<>>
    /\ blocks = <<>>
    /\ raw = <<>>
    /\ batch_of = <<>>
    /\ bte_out = <<>>
    /\ mixed = <<>>
    /\ events = <<>>
    /\ pc = NotRun
    /\ with_turns = <<>>
    /\ again = <<>>
    /\ turns = <<>>
    /\ op_pc = NotRun
    /\ op_res = NoRes
    /\ op_res2 = NoRes
    /\ span_events = <<>>
    /\ span_pc = NotRun
    /\ spans = <<>>
    /\ batch = <<>>
    /\ flow = NotRun
    /\ indexed = <<>>
    /\ built = {}
    /\ model_spans = <<>>
    /\ tool_calls = <<>>
    /\ turn_rows = <<>>
    /\ tool_events \in Logs(ToolEvents, MaxToolEvents)
    /\ tool_pc = "start"
    /\ tools = <<>>
    /\ ses_events = <<>>
    /\ ses_pc = NotRun
    /\ sessions = <<>>
    /\ table_spec = DefaultSpecs[1]
    /\ filters = NoFilters
    /\ res_pc = NotRun
    /\ resolved = Unresolved
    /\ tables = <<>>
    /\ registered = <<>>
    /\ got = NoGet
    /\ listed = NoList
    /\ conns = <<>>
    /\ connects = 0
    /\ wrapped = <<>>
    /\ views = <<>>
    /\ rt_calls = <<>>
    /\ fs = {}
    /\ out_exists = FALSE
    /\ wpc = "idle"
    /\ wmode = "append"
    /\ wid = 0
    /\ todo = <<>>
    /\ pending = <<>>
    /\ before = {}
    /\ ses_turns = <<>>
    /\ turn_ds = <<>>
    /\ turn_batch_of = <<>>
    /\ ses_blocks = <<>>

ToolsNext ==
    \/ DoBuildToolCalls

SpecTools == ToolsInit /\ [][ToolsNext]_vars

SessionsInit ==
    /\ threshold = DefaultThreshold
    /\ plugin_req = FALSE
    /\ params_est = Absent
    /\ engine = NotRun
    /\ runs = 0
    /\ op_outputs = <<"out">>
    /\ op_out = <<>>
    /\ norm = <<>>
    /\ blocks = <<>>
    /\ raw = <<>>
    /\ batch_of = <<>>
    /\ bte_out = <<>>
    /\ mixed = <<>>
    /\ events = <<>>
    /\ pc = NotRun
    /\ with_turns = <<>>
    /\ again = <<>>
    /\ turns = <<>>
    /\ op_pc = NotRun
    /\ op_res = NoRes
    /\ op_res2 = NoRes
    /\ span_events = <<>>
    /\ span_pc = NotRun
    /\ spans = <<>>
    /\ batch = <<>>
    /\ flow = NotRun
    /\ indexed = <<>>
    /\ built = {}
    /\ model_spans = <<>>
    /\ tool_calls = <<>>
    /\ turn_rows = <<>>
    /\ tool_events = <<>>
    /\ tool_pc = NotRun
    /\ tools = <<>>
    /\ ses_events \in { Classified(s) : s \in Logs(SessionEvents, MaxSessionEvents) }
    /\ ses_pc = "start"
    /\ sessions = <<>>
    /\ table_spec = DefaultSpecs[1]
    /\ filters = NoFilters
    /\ res_pc = NotRun
    /\ resolved = Unresolved
    /\ tables = <<>>
    /\ registered = <<>>
    /\ got = NoGet
    /\ listed = NoList
    /\ conns = <<>>
    /\ connects = 0
    /\ wrapped = <<>>
    /\ views = <<>>
    /\ rt_calls = <<>>
    /\ fs = {}
    /\ out_exists = FALSE
    /\ wpc = "idle"
    /\ wmode = "append"
    /\ wid = 0
    /\ todo = <<>>
    /\ pending = <<>>
    /\ before = {}
    /\ ses_turns = <<>>
    /\ turn_ds = <<>>
    /\ turn_batch_of = <<>>
    /\ ses_blocks = <<>>

SessionsNext ==
    \/ DoBuildSessions

SpecSessions == SessionsInit /\ [][SessionsNext]_vars

SessionRowsInit ==
    /\ threshold = DefaultThreshold
    /\ plugin_req = FALSE
    /\ params_est = Absent
    /\ engine = NotRun
    /\ runs = 0
    /\ op_outputs = <<"out">>
    /\ op_out = <<>>
    /\ norm = <<>>
    /\ blocks = <<>>
    /\ raw = <<>>
    /\ batch_of = <<>>
    /\ bte_out = <<>>
    /\ mixed = <<>>
    /\ events = <<>>
    /\ pc = NotRun
    /\ with_turns = <<>>
    /\ again = <<>>
    /\ turns = <<>>
    /\ op_pc = NotRun
    /\ op_res = NoRes
    /\ op_res2 = NoRes
    /\ span_events = <<>>
    /\ span_pc = NotRun
    /\ spans = <<>>
    /\ batch = <<>>
    /\ flow = NotRun
    /\ indexed = <<>>
    /\ built = {}
    /\ model_spans = <<>>
    /\ tool_calls = <<>>
    /\ turn_rows = <<>>
    /\ tool_events = <<>>
    /\ tool_pc = NotRun
    /\ tools = <<>>
    /\ ses_events \in RawLogs
    /\ ses_pc = "start"
    /\ sessions = <<>>
    /\ table_spec = DefaultSpecs[1]
    /\ filters = NoFilters
    /\ res_pc = NotRun
    /\ resolved = Unresolved
    /\ tables = <<>>
    /\ registered = <<>>
    /\ got = NoGet
    /\ listed = NoList
    /\ conns = <<>>
    /\ connects = 0
    /\ wrapped = <<>>
    /\ views = <<>>
    /\ rt_calls = <<>>
    /\ fs = {}
    /\ out_exists = FALSE
    /\ wpc = "idle"
    /\ wmode = "append"
    /\ wid = 0
    /\ todo = <<>>
    /\ pending = <<>>
    /\ before = {}
    /\ ses_turns \in TurnTables(MaxTurnRows)
    /\ turn_ds = <<>>
    /\ turn_batch_of = <<>>
    /\ ses_blocks = <<>>

SessionRowsNext ==
    \/ DoBuildSessionsFrom

SpecSessionRows == SessionRowsInit /\ [][SessionRowsNext]_vars

ResolveInit ==
    /\ threshold = DefaultThreshold
    /\ plugin_req = FALSE
    /\ params_est = Absent
    /\ engine = NotRun
    /\ runs = 0
    /\ op_outputs = <<"out">>
    /\ op_out = <<>>
    /\ norm = <<>>
    /\ blocks = <<>>
    /\ raw = <<>>
    /\ batch_of = <<>>
    /\ bte_out = <<>>
    /\ mixed = <<>>
    /\ events = <<>>
    /\ pc = NotRun
    /\ with_turns = <<>>
    /\ again = <<>>
    /\ turns = <<>>
    /\ op_pc = NotRun
    /\ op_res = NoRes
    /\ op_res2 = NoRes
    /\ span_events = <<>>
    /\ span_pc = NotRun
    /\ spans = <<>>
    /\ batch = <<>>
    /\ flow = NotRun
    /\ indexed = <<>>
    /\ built = {}
    /\ model_spans = <<>>
    /\ tool_calls = <<>>
    /\ turn_rows = <<>>
    /\ tool_events = <<>>
    /\ tool_pc = NotRun
    /\ tools = <<>>
    /\ ses_events = <<>>
    /\ ses_pc = NotRun
    /\ sessions = <<>>
    /\ table_spec \in Range(DefaultSpecs)
    /\ filters \in AllFilters
    /\ res_pc = "start"
    /\ resolved = Unresolved
    /\ tables = <<>>
    /\ registered = <<>>
    /\ got = NoGet
    /\ listed = NoList
    /\ conns = <<>>
    /\ connects = 0
    /\ wrapped = <<>>
    /\ views = <<>>
    /\ rt_calls = <<>>
    /\ fs = {}
    /\ out_exists = FALSE
    /\ wpc = "idle"
    /\ wmode = "append"
    /\ wid = 0
    /\ todo = <<>>
    /\ pending = <<>>
    /\ before = {}
    /\ ses_turns = <<>>
    /\ turn_ds = <<>>
    /\ turn_batch_of = <<>>
    /\ ses_blocks = <<>>

ResolveNext ==
    \/ DoResolve

SpecResolve == ResolveInit /\ [][ResolveNext]_vars

CatalogInit ==
    /\ threshold = DefaultThreshold
    /\ plugin_req = FALSE
    /\ params_est = Absent
    /\ engine = NotRun
    /\ runs = 0
    /\ op_outputs = <<"out">>
    /\ op_out = <<>>
    /\ norm = <<>>
    /\ blocks = <<>>
    /\ raw = <<>>
    /\ batch_of = <<>>
    /\ bte_out = <<>>
    /\ mixed = <<>>
    /\ events = <<>>
    /\ pc = NotRun
    /\ with_turns = <<>>
    /\ again = <<>>
    /\ turns = <<>>
    /\ op_pc = NotRun
    /\ op_res = NoRes
    /\ op_res2 = NoRes
    /\ span_events = <<>>
    /\ span_pc = NotRun
    /\ spans = <<>>
    /\ batch = <<>>
    /\ flow = NotRun
    /\ indexed = <<>>
    /\ built = {}
    /\ model_spans = <<>>
    /\ tool_calls = <<>>
    /\ turn_rows = <<>>
    /\ tool_events = <<>>
    /\ tool_pc = NotRun
    /\ tools = <<>>
    /\ ses_events = <<>>
    /\ ses_pc = NotRun
    /\ sessions = <<>>
    /\ table_spec = DefaultSpecs[1]
    /\ filters = NoFilters
    /\ res_pc = NotRun
    /\ resolved = Unresolved
    /\ tables = <<>>
    /\ registered = <<>>
    /\ got = NoGet
    /\ listed = NoList
    /\ conns = <<>>
    /\ connects = 0
    /\ wrapped = <<>>
    /\ views = <<>>
    /\ rt_calls = <<>>
    /\ fs = {}
    /\ out_exists = FALSE
    /\ wpc = "idle"
    /\ wmode = "append"
    /\ wid = 0
    /\ todo = <<>>
    /\ pending = <<>>
    /\ before = {}
    /\ ses_turns = <<>>
    /\ turn_ds = <<>>
    /\ turn_batch_of = <<>>
    /\ ses_blocks = <<>>

CatalogNext ==
    \/ DoRegister
    \/ DoGetTable
    \/ DoList

SpecCatalog == CatalogInit /\ [][CatalogNext]_vars

RuntimeInit ==
    /\ threshold = DefaultThreshold
    /\ plugin_req = FALSE
    /\ params_est = Absent
    /\ engine = NotRun
    /\ runs = 0
    /\ op_outputs = <<"out">>
    /\ op_out = <<>>
    /\ norm = <<>>
    /\ blocks = <<>>
    /\ raw = <<>>
    /\ batch_of = <<>>
    /\ bte_out = <<>>
    /\ mixed = <<>>
    /\ events = <<>>
    /\ pc = NotRun
    /\ with_turns = <<>>
    /\ again = <<>>
    /\ turns = <<>>
    /\ op_pc = NotRun
    /\ op_res = NoRes
    /\ op_res2 = NoRes
    /\ span_events = <<>>
    /\ span_pc = NotRun
    /\ spans = <<>>
    /\ batch = <<>>
    /\ flow = NotRun
    /\ indexed = <<>>
    /\ built = {}
    /\ model_spans = <<>>
    /\ tool_calls = <<>>
    /\ turn_rows = <<>>
    /\ tool_events = <<>>
    /\ tool_pc = NotRun
    /\ tools = <<>>
    /\ ses_events = <<>>
    /\ ses_pc = NotRun
    /\ sessions = <<>>
    /\ table_spec = DefaultSpecs[1]
    /\ filters = NoFilters
    /\ res_pc = NotRun
    /\ resolved = Unresolved
    /\ tables = <<>>
    /\ registered = <<>>
    /\ got = NoGet
    /\ listed = NoList
    /\ conns = <<>>
    /\ connects = 0
    /\ wrapped = <<>>
    /\ views = <<>>
    /\ rt_calls = <<>>
    /\ fs = {}
    /\ out_exists = FALSE
    /\ wpc = "idle"
    /\ wmode = "append"
    /\ wid = 0
    /\ todo = <<>>
    /\ pending = <<>>
    /\ before = {}
    /\ ses_turns = <<>>
    /\ turn_ds = <<>>
    /\ turn_batch_of = <<>>
    /\ ses_blocks = <<>>

RuntimeNext ==
    \/ DoNewRuntime
    \/ DoWrapBatch
    \/ DoArrow
    \/ DoDuckdbConn
    \/ DoDuckdb

SpecRuntime == RuntimeInit /\ [][RuntimeNext]_vars

WriteInit ==
    /\ threshold = DefaultThreshold
    /\ plugin_req = FALSE
    /\ params_est = Absent
    /\ engine = NotRun
    /\ runs = 0
    /\ op_outputs = <<"out">>
    /\ op_out = <<>>
    /\ norm = <<>>
    /\ blocks = <<>>
    /\ raw = <<>>
    /\ batch_of = <<>>
    /\ bte_out = <<>>
    /\ mixed = <<>>
    /\ events = <<>>
    /\ pc = NotRun
    /\ with_turns = <<>>
    /\ again = <<>>
    /\ turns = <<>>
    /\ op_pc = NotRun
    /\ op_res = NoRes
    /\ op_res2 = NoRes
    /\ span_events = <<>>
    /\ span_pc = NotRun
    /\ spans = <<>>
    /\ batch = <<>>
    /\ flow = NotRun
    /\ indexed = <<>>
    /\ built = {}
    /\ model_spans = <<>>
    /\ tool_calls = <<>>
    /\ turn_rows = <<>>
    /\ tool_events = <<>>
    /\ tool_pc = NotRun
    /\ tools = <<>>
    /\ ses_events = <<>>
    /\ ses_pc = NotRun
    /\ sessions = <<>>
    /\ table_spec = DefaultSpecs[1]
    /\ filters = NoFilters
    /\ res_pc = NotRun
    /\ resolved = Unresolved
    /\ tables = <<>>
    /\ registered = <<>>
    /\ got = NoGet
    /\ listed = NoList
    /\ conns = <<>>
    /\ connects = 0
    /\ wrapped = <<>>
    /\ views = <<>>
    /\ rt_calls = <<>>
    /\ fs \in Trees
    /\ out_exists \in {fs # {}, TRUE}
    /\ wpc = "idle"
    /\ wmode = "append"
    /\ wid = 0
    /\ todo = <<>>
    /\ pending = <<>>
    /\ before = {}
    /\ ses_turns = <<>>
    /\ turn_ds = <<>>
    /\ turn_batch_of = <<>>
    /\ ses_blocks = <<>>

WriteNext ==
    \/ DoBeginWrite
    \/ DoDeleteStep
    \/ DoRmdirOut
    \/ DoMkdir
    \/ DoWriteFile
    \/ DoEndWrite

SpecWrite == WriteInit /\ [][WriteNext]_vars


(***************************************************************************)
(* Properties                                                              *)
(***************************************************************************)

\* ---------------------------------------------------------------- C5

\* The estimate the claim speaks of: the parameter, 0 when absent.
C5_Estimate == IF params_est = Absent THEN Bytes(0, 0) ELSE params_est[1]

\* C5: choose_engine returns the distributed (ray) engine if and only if
\* the plugin requires distribution or the estimated scan size (0 when
\* absent) is at or above the configured threshold, and the local (duckdb)
\* engine in every other case.
C5_ChooseEngine ==
    runs > 0 =>
        /\ engine \in {"ray", "duckdb"}
        /\ engine = "ray" <=> (plugin_req \/ GE(C5_Estimate, threshold))

\* A run of a plugin that does not require distribution, under the default
\* threshold of 20 GiB, with an estimate exactly equal to it.
C5_Witness ==
    /\ runs > 0
    /\ ~plugin_req
    /\ threshold = Bytes(20, 0)
    /\ params_est = Given(threshold)
    /\ engine = "ray"

\* ---------------------------------------------------------------- C6

\* The batches whose mapper has been called.
Called == { b \in DOMAIN norm : norm[b].err # NotRun }

\* The key set is wrong: a dict whose keys are not the declared names, or a
\* single value where not exactly one output is declared.
WrongKeys(out, outputs) ==
    IF out.kind = "dict" THEN Keys(out.items) # Range(outputs) ELSE Len(outputs) # 1

\* The values a returned object holds: those of a dict, or the object.
ValuesOf(out) ==
    IF out.kind = "dict" THEN { out.items[i][2] : i \in DOMAIN out.items } ELSE {out}

\* Some value is neither a table nor an object with to_arrow().
BadValue(out) == \E v \in ValuesOf(out) : v.kind \notin {"table", "frame"}

\* C6 as stated: normalize_op_output either returns a mapping whose key set
\* is exactly the declared output names or raises ValueError.
C6_ReturnsOrValueError ==
    \A b \in Called :
        \/ norm[b].err = "none" /\ Keys(norm[b].map) = Range(op_outputs)
        \/ norm[b].err = "ValueError"

\* C6 as amended: normalize_op_output returns a mapping whose key set is
\* exactly the declared output names, or raises ValueError (exactly when the
\* key set is wrong: a dict with other keys, or a single value with other
\* than one declared output), or raises TypeError (exactly when the keys
\* are right and some value cannot be coerced to a table).  A returned
\* mapping holds each value under its own key: a single table under the one
\* declared name, a dict's values under the dict's keys.
C6_ReturnsOrRaises ==
    \A b \in Called :
        LET out == op_out[b]
            r == norm[b]
        IN  /\ r.err \in {"none", "ValueError", "TypeError"}
            /\ r.err = "ValueError" <=> WrongKeys(out, op_outputs)
            /\ r.err = "TypeError" <=> (~WrongKeys(out, op_outputs) /\ BadValue(out))
            /\ r.err = "none" =>
                  /\ Keys(r.map) = Range(op_outputs)
                  /\ Len(r.map) = Len(op_outputs)
                  /\ out.kind # "dict" => r.map = << <<op_outputs[1], out.tbl>> >>
                  /\ out.kind = "dict" =>
                        \A i \in DOMAIN r.map :
                            r.map[i] = <<out.items[i][1], out.items[i][2].tbl>>

\* A dict with exactly the declared keys and a value that cannot be coerced
\* raised TypeError, and another call raised ValueError.
C6_Witness ==
    \E b \in Called :
        /\ op_out[b].kind = "dict"
        /\ Keys(op_out[b].items) = {"turns", "errors"}
        /\ op_outputs = <<"turns", "errors">>
        /\ norm[b].err = "TypeError"
        /\ \E c \in Called : norm[c].err = "ValueError"

\* ---------------------------------------------------------------- C7

\* The output of a batch is malformed: wrong keys, or a value that cannot
\* be coerced to a table.
Malformed(out, outputs) == WrongKeys(out, outputs) \/ BadValue(out)

\* C7: a batch whose operator output is malformed fails with an error and
\* contributes no rows to any declared output, the outputs whose values
\* were well-formed included.
C7_AllOrNothing ==
    \A b \in Called :
        Malformed(op_out[b], op_outputs) =>
            /\ norm[b].err \in {"ValueError", "TypeError"}
            /\ norm[b].map = <<>>
            /\ blocks[b].state = "failed"
            /\ blocks[b].tbl.rows = <<>>
            /\ \A n \in Range(op_outputs) : Part(blocks[b].tbl, n).rows = <<>>

\* A batch of a two-output operator returned a table with a row under one
\* declared name and an unsupported value under the other, and failed.
C7_Witness ==
    \E b \in Called :
        /\ op_outputs = <<"turns", "errors">>
        /\ op_out[b] = DictVal(<< <<"turns", TableVal(OneRow)>>, <<"errors", OtherVal>> >>)
        /\ blocks[b].state = "failed"

\* ---------------------------------------------------------------- C1

\* Every batch of the dataset has been mapped.
AllMapped == \A b \in DOMAIN mixed : mixed[b].state # "pending"

\* Every event of each session lands in the same batch.
SessionAligned ==
    \A i, j \in DOMAIN raw :
        raw[i].session_id = raw[j].session_id => batch_of[i] = batch_of[j]

\* A turn row as the claim compares it.
TurnView(r) ==
    [dt |-> r.dt, app_id |-> r.app_id, session_id |-> r.session_id,
     turn_index |-> r.turn_index, react_iters |-> r.react_iters,
     error_count |-> r.error_count, status |-> r.status]

TurnViews(rows) == { TurnView(rows[i]) : i \in DOMAIN rows }

\* C1: when every event of each session lands in the same batch, the turn
\* rows of the batches, united, are the turn rows of one run on all events
\* in a single batch, whatever the assignment of sessions to batches and
\* the order in which the batches are mapped.
C1_BatchedEqualsSingle ==
    (AllMapped /\ SessionAligned) =>
        TurnViews(PartRows(mixed, "turns")) = TurnViews(OutTable(transform(raw), "turns").rows)

\* Two sessions in two different batches, each with a turn of its own, all
\* batches mapped.
C1_Witness ==
    /\ AllMapped
    /\ SessionAligned
    /\ \E i, j \in DOMAIN raw :
          /\ batch_of[i] # batch_of[j]
          /\ raw[i].event_type = "turn_start"
          /\ raw[j].event_type = "turn_start"
    /\ Cardinality(TurnViews(PartRows(mixed, "turns"))) >= 2

\* ---------------------------------------------------------------- C8

\* C8: the dataset Context.apply returns for a declared output holds
\* exactly the rows the operator produced for it, batch by batch, with the
\* same columns and values and without the discriminator column.
C8_PartsAreOutputs ==
    \A b \in DOMAIN mixed :
        mixed[b].state = "done" =>
            \A n \in Range(BTEOutputs) :
                Part(mixed[b].tbl, n).rows = OutTable(bte_out[b], n).rows

\* ---------------------------------------------------------------- C9

\* A table with no row and exactly the discriminator column.
EmptyTagged(tbl) == tbl.rows = <<>> /\ tbl.cols = {"__output__"}

\* C9: the transform returns a table under every declared output name for
\* every batch, empty ones included; every mapped batch has a block; the
\* block carries the discriminator column in every row; and when the
\* outputs hold no row at all the block is the empty tagged table.
C9_EmptyIsWellFormed ==
    \A b \in DOMAIN mixed :
        mixed[b].state # "pending" =>
            /\ bte_out[b].kind = "dict"
            /\ Keys(bte_out[b].items) = Range(BTEOutputs)
            /\ \A i \in DOMAIN bte_out[b].items : bte_out[b].items[i][2].kind = "table"
            /\ mixed[b].state = "done"
            /\ "__output__" \in mixed[b].tbl.cols
            /\ \A i \in DOMAIN mixed[b].tbl.rows :
                  DOMAIN mixed[b].tbl.rows[i] = mixed[b].tbl.cols
            /\ (\A n \in Range(BTEOutputs) : OutTable(bte_out[b], n).rows = <<>>)
                  => EmptyTagged(mixed[b].tbl)

\* An empty batch and a batch of rows that all lack a turn index have both
\* been mapped to the empty tagged table.
C9_Witness ==
    \E b, c \in DOMAIN mixed :
        /\ BatchRows(raw, batch_of, b) = <<>>
        /\ BatchRows(raw, batch_of, c) # <<>>
        /\ mixed[b].state = "done" /\ EmptyTagged(mixed[b].tbl)
        /\ mixed[c].state = "done" /\ EmptyTagged(mixed[c].tbl)

\* ---------------------------------------------------------------- C2

\* The event of the batch with a given event_id.
EventOf(eid) == events[CHOOSE i \in DOMAIN events : events[i].event_id = eid]

\* The row at position j follows the row at position i in the same session
\* with no explicit index in between or on it.
Follows(rows, i, j) ==
    /\ i < j
    /\ rows[i].session_id = rows[j].session_id
    /\ \A k \in i + 1 .. j : EventOf(rows[k].event_id).turn_index = NULL

\* C2: assign_turn_index gives a row with an explicit turn_index exactly
\* that value, and the rows of the session that follow it are numbered
\* from it: the turn_start rows passed since are added to it.
C2_ExplicitWins ==
    pc # "start" =>
        \A i \in DOMAIN with_turns :
            LET explicit == EventOf(with_turns[i].event_id).turn_index
            IN  explicit # NULL =>
                  /\ with_turns[i].turn_index = explicit
                  /\ \A j \in DOMAIN with_turns :
                        Follows(with_turns, i, j) =>
                            with_turns[j].turn_index = ZeroToNA(explicit +
                                Cardinality({ k \in i + 1 .. j :
                                    with_turns[k].event_type = "turn_start" }))

\* ---------------------------------------------------------------- C3

\* The turn rows the operator returned for the batch.
OpTurns == OutTable(op_res.out, "turns").rows

\* C3: no turn row has turn index 0 or null, neither from build_turns on
\* the output of assign_turn_index nor from BuildTurnsAndErrors.
C3_NoIndexlessTurn ==
    /\ pc \in {"built", "again"} =>
          \A i \in DOMAIN turns : turns[i].turn_index \notin {0, NULL}
    /\ op_pc # "start" =>
          \A i \in DOMAIN OpTurns : OpTurns[i].turn_index \notin {0, NULL}

\* ---------------------------------------------------------------- C4

\* C4: turn-index assignment is idempotent.  assign_turn_index on its own
\* output returns that output; the operator's loop, run on the batch with
\* every row's turn_index set to the index the first run gave it, gives
\* every row the same index (none where it had none) and the same turns
\* and errors.
C4_Idempotent ==
    /\ pc = "again" => again = with_turns
    /\ op_pc = "again" => op_res2 = op_res

\* Both paths ran twice on a batch in which one row has no index and a
\* later row, without an explicit index, has one.
C4_Witness ==
    /\ pc = "again"
    /\ op_pc = "again"
    /\ \E i, j \in DOMAIN events :
          /\ events[j].turn_index = NULL
          /\ op_res.idx[i] = NULL
          /\ op_res.idx[j] \notin {0, NULL}
    /\ \E i, j \in DOMAIN with_turns :
          /\ with_turns[i].turn_index = NULL
          /\ with_turns[j].turn_index # NULL

\* ---------------------------------------------------------------- C10

\* The request ids carried by the batch's rows of an event type.
IdsOf(ty) ==
    { span_events[i].request_id :
        i \in { j \in DOMAIN span_events : span_events[j].event_type = ty } } \ {NULL}

\* The request ids that have both a request and a response.
BothSides == IdsOf("llm_request") \cap IdsOf("llm_response")

\* The rows of the result that carry a request id.
IdSpans == { i \in DOMAIN spans : spans[i].span_id # NULL }

\* C10: build_model_spans returns exactly one row per request_id that has
\* both a request and a response, none for a request_id with only one of
\* them, and so as many rows as there are request_ids present on both sides.
C10_OneSpanPerRequestId ==
    span_pc = "done" =>
        /\ \A rid \in IdsOf("llm_request") \cup IdsOf("llm_response") :
              Cardinality({ i \in IdSpans : spans[i].span_id = rid })
                  = (IF rid \in BothSides THEN 1 ELSE 0)
        /\ Cardinality(IdSpans) = Cardinality(BothSides)

\* ---------------------------------------------------------------- C11

\* An error event of the batch falls in the group of a turn row of the
\* local path: it has the row's dt, app_id, session_id and assigned index.
ErrorInGroup(row) ==
    \E i \in DOMAIN with_turns :
        /\ with_turns[i].event_type = "error"
        /\ TurnKey(with_turns[i]) = TurnKey(row)

\* The same for a turn row of the operator, by the index its loop gave.
ErrorInOpGroup(row) ==
    \E i \in DOMAIN events :
        /\ events[i].event_type = "error"
        /\ op_res.idx[i] # NULL
        /\ <<events[i].dt, events[i].app_id, events[i].session_id, op_res.idx[i]>> = TurnKey(row)

\* C11: a turn's status is "fail" if and only if at least one error event
\* falls in the turn's group (dt, app_id, session_id, turn_index), and
\* "success" otherwise, for build_turns and for the turns output of
\* BuildTurnsAndErrors.
C11_FailIffError ==
    /\ pc \in {"built", "again"} =>
          \A i \in DOMAIN turns :
              turns[i].status = (IF ErrorInGroup(turns[i]) THEN "fail" ELSE "success")
    /\ op_pc # "start" =>
          \A i \in DOMAIN OpTurns :
              OpTurns[i].status = (IF ErrorInOpGroup(OpTurns[i]) THEN "fail" ELSE "success")

\* Both paths built a failed turn from one batch, and the operator a
\* successful turn as well.
C11_Witness ==
    /\ pc \in {"built", "again"}
    /\ op_pc # "start"
    /\ \E i \in DOMAIN turns : turns[i].status = "fail" /\ ErrorInGroup(turns[i])
    /\ \E i, j \in DOMAIN OpTurns : OpTurns[i].status = "fail" /\ OpTurns[j].status = "success"

\* ---------------------------------------------------------------- C12

\* The sessions of the scenario: A sends the request, B the message.
SessionA == batch[CHOOSE i \in DOMAIN batch : batch[i].event_type = "llm_request"].session_id
SessionB == batch[CHOOSE i \in DOMAIN batch : batch[i].event_type = "message"].session_id

\* The rows of a derived table that belong to a session.
RowsOf(rows, sid) == SelectSeq(rows, LAMBDA r : r.session_id = sid)

\* C12: in the end-to-end scenario session A has exactly one turn, with
\* status "fail" and model_spans_count 1, and one model span with otps 25;
\* session B has exactly one turn, with status "success", no model span and
\* no tool call.
C12_Scenario ==
    built = {"spans", "tools", "turns"} =>
        LET ta == RowsOf(turn_rows, SessionA)
            tb == RowsOf(turn_rows, SessionB)
            sa == RowsOf(model_spans, SessionA)
        IN  /\ Len(ta) = 1
            /\ ta[1].status = "fail"
            /\ ta[1].model_spans_count = 1
            /\ Len(sa) = 1
            /\ sa[1].otps.den > 0
            /\ sa[1].otps.num = 25 * sa[1].otps.den
            /\ Len(tb) = 1
            /\ tb[1].status = "success"
            /\ tb[1].model_spans_count = 0
            /\ tb[1].tool_calls_count = 0
            /\ RowsOf(model_spans, SessionB) = <<>>
            /\ RowsOf(tool_calls, SessionB) = <<>>

\* ---------------------------------------------------------------- C13

\* The pairs of a tool_call and a tool_result of the batch that carry the
\* same request id.
ToolPairs ==
    { p \in (DOMAIN tool_events) \X (DOMAIN tool_events) :
        /\ tool_events[p[1]].event_type = "tool_call"
        /\ tool_events[p[2]].event_type = "tool_result"
        /\ tool_events[p[1]].request_id # NULL
        /\ tool_events[p[1]].request_id = tool_events[p[2]].request_id }

\* C13: build_tool_calls emits one record per tool_call/tool_result pair
\* matched on request_id, with status "ok" exactly when the result's
\* exit_code is 0 or missing and "error" otherwise; a call without a
\* matching result and a result without a matching call give no record.
C13_OneRecordPerPair ==
    tool_pc = "done" =>
        /\ Len(tools) = Cardinality(ToolPairs)
        /\ \A rid \in {1, 2} :
              Cardinality({ i \in DOMAIN tools : tools[i].tool_call_id = rid })
                  = Cardinality({ p \in ToolPairs : tool_events[p[1]].request_id = rid })
        /\ \A i \in DOMAIN tools :
              tools[i].status = (IF tools[i].exit_code \in {0, NULL} THEN "ok" ELSE "error")

\* ---------------------------------------------------------------- C14

\* C14: every model span's otps equals output_tokens * 1000 /
\* max(latency_ms, 1), for a response that carries both: the divisor is at
\* least 1 and the rate is not negative for a non-negative token count.
C14_OtpsFloorsLatency ==
    span_pc = "done" =>
        \A i \in DOMAIN spans :
            (spans[i].output_tokens # NULL /\ spans[i].latency_ms # NULL) =>
                LET floor == IF spans[i].latency_ms > 1 THEN spans[i].latency_ms ELSE 1
                IN  /\ spans[i].otps.den >= 1
                    /\ spans[i].otps.num * floor = spans[i].output_tokens * 1000 * spans[i].otps.den
                    /\ spans[i].output_tokens >= 0 => spans[i].otps.num >= 0

\* The spans built hold one of a zero or negative latency, whose divisor
\* is 1, and one of 50 output tokens at 2000 ms, whose rate is 25.
C14_Witness ==
    /\ span_pc = "done"
    /\ \E i, k \in DOMAIN spans :
          /\ spans[i].latency_ms \in {0, -5}
          /\ spans[i].otps = Quot(50000, 1)
          /\ spans[k].latency_ms = 2000 /\ spans[k].output_tokens = 50
          /\ spans[k].otps.num = 25 * spans[k].otps.den

\* ---------------------------------------------------------------- C15

\* The error events of a session, by position in the raw events.
ErrorsOf(sid) ==
    { i \in DOMAIN ses_events :
        ses_events[i].event_type = "error" /\ ses_events[i].session_id = sid }

\* Error i comes before error j: a smaller turn index (a missing one is
\* the greatest), or the same and an earlier position.
ErrorBefore(i, j) ==
    \/ IndexLess(ses_events[i].turn_index, ses_events[j].turn_index)
    \/ ses_events[i].turn_index = ses_events[j].turn_index /\ i < j

DirOf(p, key) == p.dirs[CHOOSE i \in DOMAIN p.dirs : p.dirs[i][1] = key][2]

\* An optional string that names a calendar day.
IsDay(v) == Truthy(v) /\ parse_day(v[1]) # 0

\* The call returned exactly one pattern, for the date d.
OnePatternFor(d) ==
    /\ resolved.err = "none"
    /\ Len(resolved.paths) = 1
    /\ DirOf(resolved.paths[1], "dt") = d

\* C16: resolve_partition_paths returns one pattern per date of the
\* filter's dates, ascending: for a range from..to with from <= to,
\* (to - from).days + 1 patterns, one per calendar day of [from, to]; for an
\* exact dt, or when only one bound is given, one pattern for that date.
C16_OnePatternPerDate ==
    (res_pc = "done" /\ filters # NoFilters) =>
        /\ Truthy(filters.dt) => OnePatternFor(filters.dt[1])
        /\ (~Truthy(filters.dt) /\ Truthy(filters.dt_from) /\ ~Truthy(filters.dt_to))
              => OnePatternFor(filters.dt_from[1])
        /\ (~Truthy(filters.dt) /\ ~Truthy(filters.dt_from) /\ Truthy(filters.dt_to))
              => OnePatternFor(filters.dt_to[1])
        /\ (~Truthy(filters.dt) /\ IsDay(filters.dt_from) /\ IsDay(filters.dt_to)
               /\ parse_day(filters.dt_from[1]) <= parse_day(filters.dt_to[1]))
              => LET from == parse_day(filters.dt_from[1])
                     to == parse_day(filters.dt_to[1])
                 IN  /\ resolved.err = "none"
                     /\ Len(resolved.paths) = to - from + 1
                     /\ \A k \in DOMAIN resolved.paths :
                           DirOf(resolved.paths[k], "dt") = isoformat(from + k - 1)

\* A range over the month end was resolved to its four days.
C16_Witness ==
    /\ res_pc = "done"
    /\ filters # NoFilters
    /\ ~Truthy(filters.dt)
    /\ filters.dt_from = Given("2026-02-27")
    /\ filters.dt_to = Given("2026-03-02")
    /\ Len(resolved.paths) = 4
    /\ DirOf(resolved.paths[3], "dt") = "2026-03-01"

\* ---------------------------------------------------------------- C17

\* The call returned patterns for a filter.
Patterns == IF res_pc = "done" /\ filters # NoFilters THEN Range(resolved.paths) ELSE {}

\* C17: for each key k of app_id and session_id, the k directory of every
\* returned pattern holds the filter's value only if k is one of the
\* spec's partition keys; for any other table the filter's value is ignored
\* and does not appear in the pattern.
C17_NarrowsOnlyPartitionKeys ==
    \A p \in Patterns : \A key \in {"app_id", "session_id"} :
        IF key \in Range(table_spec.partition_keys)
        THEN Truthy(filters[key]) => DirOf(p, key) = filters[key][1]
        ELSE \A i \in DOMAIN p.dirs : p.dirs[i][1] = key => p.dirs[i][2] = "*"

\* ---------------------------------------------------------------- C18

\* The keys of the directories of a pattern, in order.
DirKeys(p) == [i \in DOMAIN p.dirs |-> p.dirs[i][1]]

\* C18: every pattern returned for a filter is
\* <table_root>/dt=<date>/app_id=<app>/session_id=<session>/<files> when the
\* table is partitioned by session_id, and <table_root>/dt=<date>/app_id=<app>/<files>
\* with no session_id directory when it is not.
C18_PersistedLayout ==
    \A p \in Patterns :
        /\ p.root = table_spec.path
        /\ DirKeys(p) = (IF "session_id" \in Range(table_spec.partition_keys)
                         THEN <<"dt", "app_id", "session_id">>
                         ELSE <<"dt", "app_id">>)

\* ---------------------------------------------------------------- C19

\* C19: resolve_partition_paths never raises, whatever the filter, and a
\* range whose dt_from is later than its dt_to returns the empty list.
C19_NeverRaises ==
    res_pc = "done" =>
        /\ resolved.err = "none"
        /\ (/\ filters # NoFilters
            /\ ~Truthy(filters.dt)
            /\ IsDay(filters.dt_from) /\ IsDay(filters.dt_to)
            /\ parse_day(filters.dt_from[1]) > parse_day(filters.dt_to[1]))
              => resolved.paths = <<>>

\* ---------------------------------------------------------------- C20

\* The register calls under a name among the first n.
CallsFor(name, n) == { i \in 1 .. n : registered[i][1] = name }

\* What get(name) returns after the first n register calls: the spec of
\* the last of them under that name, or KeyError when there is none.
LastRegistered(name, n) ==
    IF CallsFor(name, n) = {} THEN GetRaised("KeyError")
    ELSE GetReturned(registered[Max(CallsFor(name, n))][2])

\* C20: after any sequence of register calls, get(name) returns exactly
\* the spec passed to the most recent register(name, .): a later register
\* under the name replaces the earlier spec, and a register under another
\* name changes nothing for this one.
C20_GetReturnsLastRegistered ==
    /\ got # NoGet => got.res = LastRegistered(got.name, got.at)
    /\ \A name \in TableNames : get(tables, name) = LastRegistered(name, Len(registered))

\* A name was registered twice with different specs, another name after
\* it, and get returned the later spec.
C20_Witness ==
    /\ got.at = 3
    /\ registered[1][1] = got.name
    /\ registered[2][1] = got.name
    /\ registered[3][1] # got.name
    /\ registered[1][2] # registered[2][2]
    /\ got.res = GetReturned(registered[2][2])

\* ---------------------------------------------------------------- C21

\* The names registered by the first n register calls.
RegisteredNames(n) == { registered[i][1] : i \in 1 .. n }

\* The names a sequence lists.
Listed(names) == { names[i] : i \in DOMAIN names }

\* C21: get(name) of a name that is not registered raises KeyError with a
\* text that names every registered name, a get of a registered name
\* raises nothing, list returns the registered names, and no get and no
\* list changes the registry.
C21_UnknownNameListsRegistry ==
    /\ [](got # NoGet =>
            /\ got.res.err = "KeyError" <=> got.name \notin RegisteredNames(got.at)
            /\ got.res.err = "KeyError" =>
                  /\ got.msg.table = got.name
                  /\ Listed(got.msg.registered) = RegisteredNames(got.at)
                  /\ Len(got.msg.registered) = Cardinality(RegisteredNames(got.at)))
    /\ [](listed.done => Listed(listed.names) = RegisteredNames(listed.at))
    /\ [][got' # got \/ listed' # listed => tables' = tables /\ registered' = registered]_vars

\* A get of an unregistered name failed while another name was registered,
\* and the registry still holds that registration.
C21_Witness ==
    /\ got.res.err = "KeyError"
    /\ got.at = 1
    /\ got.msg.registered = <<registered[1][1]>>
    /\ Keys(tables) = {registered[1][1]}
    /\ listed.done

\* ---------------------------------------------------------------- C22

\* The calls made so far on a runtime that ask for its connection.
ConnCalls(rt) ==
    { i \in DOMAIN rt_calls : rt_calls[i].runtime = rt /\ rt_calls[i].op # "arrow" }

\* C22: a runtime holds a connection exactly when duckdb_conn() or
\* Batch.duckdb() has been called on it (Batch.arrow() creates none), one
\* connection is created per runtime that holds one, and every such call
\* on a runtime, from any batch, returned the connection the runtime
\* holds.
C22_LazyUniqueConnection ==
    /\ \A rt \in DOMAIN conns : conns[rt] = NULL <=> ConnCalls(rt) = {}
    /\ connects = Cardinality({ rt \in DOMAIN conns : conns[rt] # NULL })
    /\ \A rt \in DOMAIN conns : \A i \in ConnCalls(rt) :
          rt_calls[i].conn # NULL /\ rt_calls[i].conn = conns[rt]
    /\ \A i \in DOMAIN rt_calls : rt_calls[i].op = "arrow" => rt_calls[i].conn = NULL

\* Two batches of one runtime: arrow() on the first left the runtime
\* without a connection, then duckdb() on each returned the same one.
C22_Witness ==
    /\ Len(rt_calls) = 3
    /\ rt_calls[1].op = "arrow"
    /\ rt_calls[2].op = "duckdb"
    /\ rt_calls[3].op = "duckdb"
    /\ rt_calls[2].runtime = rt_calls[1].runtime
    /\ rt_calls[3].runtime = rt_calls[1].runtime
    /\ rt_calls[2].batch # rt_calls[3].batch
    /\ rt_calls[2].conn = rt_calls[3].conn
    /\ connects = 1

\* ---------------------------------------------------------------- C23

FilesOf(t) == { e \in t : e.kind = "file" }

\* The write call in progress, or the last one, has written a file.
HasWritten == \E e \in FilesOf(fs) : e.by = wid

\* C23: a write never fails on the destination; in overwrite mode no file
\* from before the call is left once the call starts writing, and when the
\* call has returned the destination holds only files of this call; in
\* append mode every entry from before the call is there unchanged at
\* every step, and when the call has returned the files are those from
\* before together with the new ones.
C23_OverwriteClearsAppendKeeps ==
    /\ wpc # "raised"
    /\ (wid > 0 /\ wmode = "overwrite") =>
          /\ (wpc \in {"mkdir", "write", "idle"}) => FilesOf(fs) \cap before = {}
          /\ HasWritten => FilesOf(fs) \cap before = {}
          /\ wpc = "idle" => \A e \in fs : e.by = wid
    /\ (wid > 0 /\ wmode = "append") =>
          /\ before \subseteq fs
          /\ \A e \in fs \ before : e.by = wid
          /\ wpc = "idle" => todo = <<>>

\* An overwrite of a destination that held a file at the top and one in
\* a partition has returned, and only its own file is there.
C23_Witness ==
    /\ wpc = "idle"
    /\ wmode = "overwrite"
    /\ {OldFile, OldPartFile} \subseteq before
    /\ FilesOf(fs) # {}
    /\ \A e \in fs : e.by = wid

\* An append to a destination that held files has returned: they are
\* still there next to a new file.
C23_AppendWitness ==
    /\ wpc = "idle"
    /\ wmode = "append"
    /\ FilesOf(before) # {}
    /\ before \subseteq fs
    /\ \E e \in FilesOf(fs) : e.by = wid

\* ---------------------------------------------------------------- C24

\* What the claim compares of a turn row: its key, its model-request
\* count, its error count and its status.
TurnSummary(r) == <<TurnKey(r), r.react_iters, r.error_count, r.status>>
Summaries(rows) == { TurnSummary(rows[i]) : i \in DOMAIN rows }

\* Both paths have run on the batch.
BothPathsRan == pc \in {"built", "again"} /\ op_pc # "start"

\* C24: on the same batch the local path and the operator produce the
\* same turn keys, each with the same react_iters, error_count and status.
C24_PathsAgree ==
    BothPathsRan => Summaries(turns) = Summaries(OpTurns)

\* No event of the batch carries a turn index.
Indexless == \A i \in DOMAIN events : events[i].turn_index = NULL

\* The batch is delivered in (session_id, ts, event_id) order.
DeliveredInOrder == sort_values(events) = events

\* The paths do agree on a batch without explicit indices that is
\* delivered in order.
C24_AgreeInOrderWithoutIndex ==
    (BothPathsRan /\ Indexless /\ DeliveredInOrder) => Summaries(turns) = Summaries(OpTurns)

\* ---------------------------------------------------------------- C25

\* The rows of the batch up to row i that belong to row i's session.
OwnRows(i) == { j \in 1 .. i : events[j].session_id = events[i].session_id }

\* Those of them that carry an explicit turn index.
Anchors(i) == { j \in OwnRows(i) : events[j].turn_index # NULL }

\* The turn_start rows of the session after its last explicit index.
StartsSince(i) ==
    { j \in OwnRows(i) : /\ events[j].event_type = "turn_start"
                          /\ \A a \in Anchors(i) : a < j }

\* The session's counter after row i: the last explicit index, or 0,
\* plus one for every turn_start since.
CounterAt(i) ==
    (IF Anchors(i) = {} THEN 0 ELSE events[Max(Anchors(i))].turn_index)
    + Cardinality(StartsSince(i))

\* C25: every row of the batch is given the value its own session's
\* counter has after it, counted from the rows of that session alone in
\* the order delivered: an explicit index sets the counter and is taken,
\* a turn_start adds one, any other row takes the counter as it is.  A row
\* of a session whose counter is still untouched at 0 is given no index.
C25_CounterPerSession ==
    op_pc # "start" =>
        \A i \in DOMAIN events :
            op_res.idx[i] =
                (IF Anchors(i) = {} /\ StartsSince(i) = {} THEN NULL ELSE CounterAt(i))

\* Two sessions interleaved in one batch: the first row opens a turn of
\* one session, and the second row, of the other session, is given no
\* index.
C25_Witness ==
    /\ op_pc # "start"
    /\ Len(events) = 2
    /\ events[1].session_id # events[2].session_id
    /\ events[1].event_type = "turn_start" /\ events[1].turn_index = NULL
    /\ events[2].event_type # "turn_start" /\ events[2].turn_index = NULL
    /\ op_res.idx = <<1, NULL>>

\* One session: an explicit index re-anchors the counter and the
\* turn_start after it counts on from there.
C25_AnchorWitness ==
    /\ op_pc # "start"
    /\ Len(events) = 2
    /\ events[1].session_id = events[2].session_id
    /\ events[1].turn_index = 2
    /\ events[2].event_type = "turn_start" /\ events[2].turn_index = NULL
    /\ op_res.idx = <<2, 3>>

\* ---------------------------------------------------------------- C26

\* The batch delivered in another order.
Permuted(q) == [i \in DOMAIN events |-> events[q[i]]]

\* The rows of a table, as a set.
RowSet(tbl) == { tbl.rows[i] : i \in DOMAIN tbl.rows }

\* The operator returns the same turns and errors rows for two batches.
SameOutputs(a, b) ==
    /\ RowSet(OutTable(a, "turns")) = RowSet(OutTable(b, "turns"))
    /\ RowSet(OutTable(a, "errors")) = RowSet(OutTable(b, "errors"))

\* C26: BuildTurnsAndErrors returns the same turns and errors rows for
\* the batch in whatever order its rows are delivered.
C26_DeliveryOrderIrrelevant ==
    op_pc # "start" =>
        \A q \in Permutations(DOMAIN events) :
            SameOutputs(transform(Permuted(q)), op_res.out)

\* The same for batches without explicit turn indices only.
C26_IrrelevantWithoutIndex ==
    (op_pc # "start" /\ Indexless) =>
        \A q \in Permutations(DOMAIN events) :
            SameOutputs(transform(Permuted(q)), op_res.out)

\* The order does not matter among rows that are not turn boundaries:
\* batches without turn_start rows and without explicit indices.
C26_IrrelevantWithoutBoundaries ==
    (op_pc # "start" /\ Indexless
        /\ \A i \in DOMAIN events : events[i].event_type # "turn_start") =>
        \A q \in Permutations(DOMAIN events) :
            SameOutputs(transform(Permuted(q)), op_res.out)

\* ---------------------------------------------------------------- C27

\* The (dt, app_id, session_id) of a row.
DtAppSession(r) == <<r.dt, r.app_id, r.session_id>>

\* The turns given to build_sessions that belong to a session row.
TurnsOf(row) == { i \in DOMAIN ses_turns : DtAppSession(ses_turns[i]) = DtAppSession(row) }

\* C27: build_sessions returns exactly one row per (dt, app_id,
\* session_id) of the turns it is given; the row counts those turns, sums
\* their model spans, tool calls and tokens, and its duration runs from
\* their earliest start to their latest end.
C27_OneRowPerSessionKey ==
    ses_pc = "done" =>
        /\ { DtAppSession(sessions[i]) : i \in DOMAIN sessions }
             = { DtAppSession(ses_turns[i]) : i \in DOMAIN ses_turns }
        /\ \A i, j \in DOMAIN sessions :
              DtAppSession(sessions[i]) = DtAppSession(sessions[j]) => i = j
        /\ \A i \in DOMAIN sessions :
              LET row == sessions[i]
                  I == TurnsOf(row)
              IN  /\ row.turns_count = Cardinality(I)
                  /\ row.model_spans_count = SumOver(ses_turns, I, "model_spans_count")
                  /\ row.tool_calls_count = SumOver(ses_turns, I, "tool_calls_count")
                  /\ row.total_input_tokens = SumOver(ses_turns, I, "input_tokens")
                  /\ row.total_output_tokens = SumOver(ses_turns, I, "output_tokens")
                  /\ row.duration_ms =
                        1000 * (Max({ ses_turns[t].end_ts : t \in I })
                                - Min({ ses_turns[t].start_ts : t \in I }))

\* One session id under two dates, with two turns on the first: two
\* session rows, the first over both of its turns, each with the
\* session's first error.
C27_Witness ==
    /\ ses_pc = "done"
    /\ Len(ses_turns) = 3
    /\ ses_events # <<>>
    /\ Len(sessions) = 2
    /\ DtAppSession(sessions[1]) = <<1, 1, 1>>
    /\ DtAppSession(sessions[2]) = <<2, 1, 1>>
    /\ sessions[1].turns_count = 2
    /\ sessions[1].total_input_tokens = 130
    /\ sessions[1].duration_ms = 7000
    /\ sessions[2].turns_count = 1
    /\ sessions[1].first_error_turn = 1
    /\ sessions[2].first_error_turn = 1

\* ---------------------------------------------------------------- C28

\* The table resolved against is partitioned by session_id.
BySession == "session_id" \in Range(table_spec.partition_keys)

\* C28: for a table partitioned by session_id, every pattern returned for
\* a filter that sets no session_id has the session directory "*", and
\* every pattern returned for a filter that sets no app_id has the app
\* directory "*".
C28_UnsetIdIsWildcard ==
    BySession =>
        \A p \in Patterns :
            /\ ~Truthy(filters.session_id) => DirOf(p, "session_id") = "*"
            /\ ~Truthy(filters.app_id) => DirOf(p, "app_id") = "*"

\* The app half on its own.
C28_UnsetAppIsWildcard ==
    BySession =>
        \A p \in Patterns : ~Truthy(filters.app_id) => DirOf(p, "app_id") = "*"

\* What the session directory holds instead: the text of the filter's
\* session_id, "None" for None.
C28_SessionDirIsFormatted ==
    BySession =>
        \A p \in Patterns : DirOf(p, "session_id") = Format(filters.session_id)

\* ---------------------------------------------------------------- C29

\* Every batch of the turns dataset has been mapped.
AllSessionsMapped == \A b \in DOMAIN ses_blocks : ses_blocks[b].state = "done"

\* The rows of the sessions dataset: the rows of the blocks, batch by batch.
SessionRows ==
    Concat([b \in DOMAIN ses_blocks |->
               IF ses_blocks[b].state = "done" THEN ses_blocks[b].tbl.rows ELSE <<>>])

\* The turn rows of the dataset that belong to a sessions row.
DatasetTurnsOf(row) ==
    { i \in DOMAIN turn_ds : DtAppSession(turn_ds[i]) = DtAppSession(row) }

\* C29: once every batch is mapped the sessions dataset holds at most one
\* row per (dt, app_id, session_id), with turns_count the number of the
\* session's turn rows in the whole dataset and error_turns the number of
\* them with status "fail", however the rows are divided into batches.
C29_OneSessionRowOverDataset ==
    AllSessionsMapped =>
        /\ \A i, j \in DOMAIN SessionRows :
              DtAppSession(SessionRows[i]) = DtAppSession(SessionRows[j]) => i = j
        /\ \A i \in DOMAIN SessionRows :
              LET row == SessionRows[i]
                  I == DatasetTurnsOf(row)
              IN  /\ row.turns_count = Cardinality(I)
                  /\ row.error_turns =
                        Cardinality({ t \in I : turn_ds[t].status = "fail" })
                  /\ row.error_turns <= row.turns_count

\* Every turn of each session lands in the same batch.
TurnsAligned ==
    \A i, j \in DOMAIN turn_ds :
        DtAppSession(turn_ds[i]) = DtAppSession(turn_ds[j]) => turn_batch_of[i] = turn_batch_of[j]

\* The same when every turn of each session lands in the same batch.
C29_OneSessionRowWhenAligned ==
    (AllSessionsMapped /\ TurnsAligned) =>
        /\ \A i, j \in DOMAIN SessionRows :
              DtAppSession(SessionRows[i]) = DtAppSession(SessionRows[j]) => i = j
        /\ \A i \in DOMAIN SessionRows :
              LET row == SessionRows[i]
                  I == DatasetTurnsOf(row)
              IN  /\ row.turns_count = Cardinality(I)
                  /\ row.error_turns =
                        Cardinality({ t \in I : turn_ds[t].status = "fail" })

\* ---------------------------------------------------------------- C30

\* The error rows the operator returned for the batch.
OpErrors == OutTable(op_res.out, "errors").rows

\* C30: in the output of BuildTurnsAndErrors for a batch no two turns rows
\* share a key (dt, app_id, session_id, turn_index), every errors row has
\* a turns row of its key and that row's status is "fail", and the
\* error_count of the turns rows adds up to the number of errors rows.
C30_TurnsAndErrorsConsistent ==
    op_pc # "start" =>
        /\ \A i, j \in DOMAIN OpTurns : TurnKey(OpTurns[i]) = TurnKey(OpTurns[j]) => i = j
        /\ \A e \in DOMAIN OpErrors :
              \E t \in DOMAIN OpTurns :
                  TurnKey(OpTurns[t]) = TurnKey(OpErrors[e]) /\ OpTurns[t].status = "fail"
        /\ SumOver(OpTurns, DOMAIN OpTurns, "error_count") = Len(OpErrors)

\* A batch with an error in each of two turns: two turns rows with
\* status "fail" and two errors rows.
C30_Witness ==
    /\ op_pc # "start"
    /\ Len(OpTurns) = 2
    /\ Len(OpErrors) = 2
    /\ TurnKey(OpErrors[1]) # TurnKey(OpErrors[2])
    /\ \A t \in DOMAIN OpTurns : OpTurns[t].status = "fail" /\ OpTurns[t].error_count = 1

\* A batch with two errors in one turn: one turns row with error_count 2
\* and two errors rows.
C30_SameTurnWitness ==
    /\ op_pc # "start"
    /\ Len(OpTurns) = 1
    /\ OpTurns[1].error_count = 2
    /\ Len(OpErrors) = 2

====
